---------------------------- MODULE Spec2Model ----------------------------
(***************************************************************************)
(* Omvyx Voice: the dialogue orchestration engine.                         *)
(*                                                                         *)
(*   src/main.py            the per-call session supervisor (WebSocket     *)
(*                          receive loop, one asyncio task per turn)       *)
(*   src/graph/workflow.py  the turn pipeline (LangGraph nodes and edges)  *)
(*   src/graph/state.py     the persisted per-call state                   *)
(*   src/tools/*.py         the directory, calendar and knowledge mocks    *)
(*                                                                         *)
(* The graph is compiled with a MemorySaver checkpointer: the channel      *)
(* values of a thread are saved when the input is applied and again after  *)
(* every node, and an invocation starts from the latest saved values of    *)
(* its thread.  Every node runs in its own scheduling step, so a task can  *)
(* be cancelled between any two nodes.                                     *)
(***************************************************************************)
EXTENDS Naturals, Sequences, FiniteSets, TLC

(***************************************************************************)
(* Bounds of the model.                                                    *)
(***************************************************************************)
MaxTasks == 2
MaxOverlap == 3
MaxTurns == 4
MaxPings == 1
MaxCallTurns == 3
MaxLiveTurns == 3
MaxStarts == 3

(***************************************************************************)
(* Python values.                                                          *)
(***************************************************************************)
None == "<None>"

Falsy(v) == v \in {None, ""}

\* dict.get(k): a dict is a function whose domain is its set of keys
Get(d, k) == IF k \in DOMAIN d THEN d[k] ELSE None

\* d[k] = v
Put(d, k, v) == [x \in (DOMAIN d) \cup {k} |-> IF x = k THEN v ELSE d[x]]

EmptyDict == [x \in {} |-> None]

Range(s) == {s[i] : i \in 1..Len(s)}

Last(s) == s[Len(s)]

MaxOf(S) == CHOOSE x \in S : \A y \in S : y <= x

AllCalls == {"call-1", "call-2"}

(***************************************************************************)
(* graph/state.py                                                          *)
(***************************************************************************)
REQUIRED_FIELDS == <<"dni", "name", "intent">>

ClientProfile ==
    [identity_key |-> None, is_verified |-> FALSE, is_new_customer |-> TRUE,
     profile_data |-> EmptyDict, interaction_history |-> <<>>]

BookingRequest ==
    [requested_date |-> None, confirmed_slot |-> None, status |-> "idle"]

\* The channel values of a thread that has no checkpoint yet.  OmvyxState is
\* a TypedDict, so the declared defaults are not applied: a key that no node
\* has written is absent and every node reads it with the default of its own
\* state.get(...) call, which is the value given here.
OmvyxState ==
    [messages |-> <<>>, call_id |-> "",
     client_profile |-> ClientProfile,
     missing_required_fields |-> <<>>,
     current_slot |-> "", interrupted_by_faq |-> FALSE,
     booking |-> BookingRequest, intent |-> "unknown",
     system_initialized |-> FALSE]

HumanMessage(text) == [type |-> "human", content |-> <<text>>]

\* content is the sequence of the pieces the f-string concatenates
AIMessage(parts) == [type |-> "ai", content |-> parts]

SYSTEM_PROMPT == [type |-> "system", content |-> <<"Eres Omvyx, una recepcionista virtual profesional y amable.">>]

(***************************************************************************)
(* The caller utterances of the model, each with what the source's regexes *)
(* and keyword lists compute on its text:                                  *)
(*   dni, name, email, phone  _extract_field_value(field, text)            *)
(*   greeting, words, faq_signal, booking_signal, bye_signal               *)
(*                            what _detect_intent tests                    *)
(*   date_match               re.search(r"\d{4}-\d{2}-\d{2}\s+\d{2}:\d{2}")*)
(*   faq_entry                index of the first _FAQ_ENTRIES entry with a *)
(*                            keyword in the text, 0 when there is none    *)
(***************************************************************************)
Utt(text, dni, name, email, greeting, words, faq, booking, bye, date, entry) ==
    [text |-> text, dni |-> dni, name |-> name, email |-> email, phone |-> None,
     greeting |-> greeting, words |-> words, faq_signal |-> faq,
     booking_signal |-> booking, bye_signal |-> bye,
     date_match |-> date, faq_entry |-> entry]

Utterances ==
    { Utt("Hola", None, None, None, TRUE, 1, FALSE, FALSE, FALSE, None, 0),
      Utt("Mi DNI es 99887766C", "99887766C", None, None, FALSE, 4, FALSE, FALSE, FALSE, None, 0),
      Utt("Hola, mi DNI es 12345678A", "12345678A", None, None, TRUE, 5, FALSE, FALSE, FALSE, None, 0),
      Utt("Me llamo Ana Torres", None, "Ana Torres", None, FALSE, 4, FALSE, FALSE, FALSE, None, 0),
      Utt("Soy Ana Torres 99887766C", "99887766C", "Ana Torres", None, FALSE, 4, FALSE, FALSE, FALSE, None, 0),
      Utt("¿Cuál es el horario?", None, None, None, FALSE, 4, TRUE, FALSE, FALSE, None, 2),
      Utt("¿Dónde están ubicados?", None, "Están", None, FALSE, 3, TRUE, FALSE, FALSE, None, 1),
      Utt("Quiero una cita para 2026-02-09 10:00", None, None, None, FALSE, 6, FALSE, TRUE, FALSE, "2026-02-09 10:00", 0),
      Utt("Mi DNI es 12345678A, quiero una cita para 2026-02-09 12:00", "12345678A", None, None, FALSE, 10, FALSE, TRUE, FALSE, "2026-02-09 12:00", 0),
      Utt("Mejor el 2026-02-09 12:00", None, None, None, FALSE, 4, FALSE, FALSE, FALSE, "2026-02-09 12:00", 0),
      Utt("Quiero una cita para 2026-13-45 10:00", None, None, None, FALSE, 6, FALSE, TRUE, FALSE, "2026-13-45 10:00", 0),
      Utt("Eso es todo, adiós", None, None, None, FALSE, 4, FALSE, FALSE, TRUE, None, 0) }

Texts == {u.text : u \in Utterances}

Utterance(text) == CHOOSE u \in Utterances : u.text = text

\* what a transport event carries as the caller's last utterance; "" stands
\* for a transcript with no user turn
WireTexts == (Texts \ {"Hola"}) \cup {""}

(***************************************************************************)
(* tools/crm.py: the customer directory (_MOCK_USERS), keyed by DNI.       *)
(***************************************************************************)
_MOCK_USERS ==
    [d \in {"12345678A", "87654321B"} |->
       IF d = "12345678A"
       THEN [name |-> "María García", dni |-> "12345678A",
             email |-> "maria@example.com", phone |-> "+34600111222",
             address |-> "Calle Serrano 45, Madrid", loyalty_level |-> "gold",
             interaction_history |->
               << [type |-> "appointment", date |-> "2025-12-10", summary |-> "Consulta general"],
                  [type |-> "call", date |-> "2026-01-15", summary |-> "Cambio de cita"] >>]
       ELSE [name |-> "Carlos López", dni |-> "87654321B",
             email |-> "carlos@example.com", phone |-> "+34600333444",
             address |-> "Avenida de la Constitución 12, Sevilla", loyalty_level |-> "silver",
             interaction_history |->
               << [type |-> "appointment", date |-> "2026-01-20", summary |-> "Primera visita"] >>]]

\* the record's string fields (every key but interaction_history)
RecordFields == {"name", "dni", "email", "phone", "address", "loyalty_level"}

\* lookup_user: the set holding the record, empty for None.  The identifiers of
\* the model are upper case without blanks, so dni.strip().upper() is dni.
lookup_user(db, dni) == IF dni \in DOMAIN db THEN {db[dni]} ELSE {}

\* create_user: name, dni, email and phone as save_crm passes them ("" for a
\* field the profile lacks); the name has no outer blanks, the email is lower
\* case already
create_user(db, name, dni, email, phone) ==
    Put(db, dni,
        [name |-> name, dni |-> dni, email |-> email, phone |-> phone,
         address |-> "", loyalty_level |-> "standard",
         interaction_history |-> <<>>])

\* update_user: only the fields passed with a value other than None and ""
\* are overwritten; no change when the user does not exist
update_user(db, dni, fields) ==
    IF dni \notin DOMAIN db THEN db
    ELSE Put(db, dni,
             [k \in DOMAIN db[dni] |->
                IF k \in DOMAIN fields /\ ~Falsy(fields[k]) THEN fields[k] ELSE db[dni][k]])

(***************************************************************************)
(* tools/calendar.py                                                       *)
(***************************************************************************)
_BUSY_SLOTS == {"2026-02-09 10:00", "2026-02-09 11:00", "2026-02-10 09:00"}

\* The business-hour slots (Mon-Fri, 09:00 to 16:00 on the hour) from Monday
\* 2026-02-09 on, in time order: the candidates _next_available walks through
\* that pass _is_business_slot.
BusinessSlots ==
    << "2026-02-09 09:00", "2026-02-09 10:00", "2026-02-09 11:00", "2026-02-09 12:00",
       "2026-02-09 13:00", "2026-02-09 14:00", "2026-02-09 15:00", "2026-02-09 16:00",
       "2026-02-10 09:00", "2026-02-10 10:00", "2026-02-10 11:00", "2026-02-10 12:00" >>

\* datetime.strptime(key, "%Y-%m-%d %H:%M") succeeds
ParsesAsDate(key) == key # "2026-13-45 10:00"

_is_business_slot(key) == key \in Range(BusinessSlots)

SlotIndex(key) == CHOOSE i \in 1..Len(BusinessSlots) : BusinessSlots[i] = key

RECURSIVE NextFree(_, _, _)
NextFree(i, count, busySlots) ==
    IF count = 0 \/ i > Len(BusinessSlots) THEN <<>>
    ELSE IF BusinessSlots[i] \notin busySlots
         THEN <<BusinessSlots[i]>> \o NextFree(i + 1, count - 1, busySlots)
         ELSE NextFree(i + 1, count, busySlots)

\* _next_available(after, count=2): the first two free business-hour slots
\* after `after`.  A slot key that is well formed and not a business-hour
\* slot is taken to lie on Sunday 2026-02-08, before every slot listed.
_next_available(key, busySlots) ==
    NextFree(IF _is_business_slot(key) THEN SlotIndex(key) + 1 ELSE 1, 2, busySlots)

\* check_availability: "alternatives" is <<>> where the result has no such key
\* (result.get("alternatives", [])), "error" is None where it has none
check_availability(key, busySlots) ==
    IF ~ParsesAsDate(key)
    THEN [available |-> FALSE, alternatives |-> <<>>,
          error |-> "Invalid date format. Use YYYY-MM-DD HH:MM."]
    ELSE IF ~_is_business_slot(key)
    THEN [available |-> FALSE, alternatives |-> _next_available(key, busySlots),
          error |-> "Outside business hours (Mon-Fri, 09:00-17:00)."]
    ELSE IF key \in busySlots
    THEN [available |-> FALSE, alternatives |-> _next_available(key, busySlots),
          error |-> None]
    ELSE [available |-> TRUE, alternatives |-> <<>>, error |-> None]

book_slot(key, busySlots) == busySlots \cup {key}

(***************************************************************************)
(* tools/faq.py                                                            *)
(***************************************************************************)
_FAQ_ENTRIES ==
    << "Estamos ubicados en Calle Gran Vía 28, Madrid. El horario de atención es de lunes a viernes, de 9:00 a 17:00.",
       "Nuestro horario de atención es de lunes a viernes, de 9:00 a 17:00. Los fines de semana permanecemos cerrados.",
       "La consulta inicial tiene un costo de 50 €.",
       "Puede cancelar o reprogramar su cita con al menos 24 horas de antelación sin cargo alguno.",
       "Aceptamos los principales seguros médicos: Sanitas, Adeslas, Mapfre y DKV.",
       "Disponemos de parking gratuito para pacientes en el sótano del edificio." >>

search_faq(text) ==
    LET e == Utterance(text).faq_entry
    IN  IF e = 0 THEN None ELSE _FAQ_ENTRIES[e]

(***************************************************************************)
(* graph/workflow.py: helpers                                              *)
(***************************************************************************)
FIELD_PROMPTS ==
    [f \in {"dni", "name", "intent"} |->
       CASE f = "dni" -> "Para poder buscarle en nuestro sistema, ¿me puede facilitar su DNI o documento de identidad?"
         [] f = "name" -> "Perfecto. ¿Me puede indicar su nombre completo?"
         [] f = "intent" -> "¿En qué puedo ayudarle hoy? Puedo agendar una cita, resolver dudas o consultar información."]

\* FIELD_PROMPTS[f].lower()
LowerPrompt(f) ==
    CASE f = "dni" -> "para poder buscarle en nuestro sistema, ¿me puede facilitar su dni o documento de identidad?"
      [] f = "name" -> "perfecto. ¿me puede indicar su nombre completo?"
      [] f = "intent" -> "¿en qué puedo ayudarle hoy? puedo agendar una cita, resolver dudas o consultar información."

\* dict.get(k, default)
GetOr(d, k, default) == IF k \in DOMAIN d THEN d[k] ELSE default

_last_human_text(state) ==
    LET humans == {i \in 1..Len(state.messages) : state.messages[i].type = "human"}
    IN  IF humans = {} THEN "" ELSE state.messages[MaxOf(humans)].content[1]

_extract_field_value(field, text) ==
    IF text = "" THEN None
    ELSE CASE field = "dni" -> Utterance(text).dni
           [] field = "email" -> Utterance(text).email
           [] field = "phone" -> Utterance(text).phone
           [] field = "name" -> Utterance(text).name
           [] OTHER -> None

_detect_intent(text) ==
    LET u == Utterance(text)
    IN  IF u.greeting /\ u.words <= 4 THEN "greeting"
        ELSE IF u.faq_signal THEN "faq"
        ELSE IF u.booking_signal THEN "booking"
        ELSE IF u.bye_signal THEN "end_call"
        ELSE "collect_data"

\* "intent" is skipped on every path of the loop: it is never listed
_compute_missing_fields(profile, intent) ==
    SelectSeq(REQUIRED_FIELDS,
              LAMBDA field : field # "intent" /\ Falsy(Get(profile.profile_data, field)))

(***************************************************************************)
(* graph/workflow.py: the nodes, each as the state its update gives        *)
(***************************************************************************)
\* an initialisation that puts the prompt in front of the messages
init_system_prepends(state) ==
    IF state.system_initialized THEN state
    ELSE [state EXCEPT !.messages = <<SYSTEM_PROMPT>> \o @,
                       !.system_initialized = TRUE]

\* an initialisation that prepares the prompt on every turn
init_system_every_turn(state) ==
    [state EXCEPT !.messages = Append(@, SYSTEM_PROMPT),
                  !.system_initialized = TRUE]

init_system(state) ==
    IF state.system_initialized THEN state
    ELSE [state EXCEPT !.messages = Append(@, SYSTEM_PROMPT),
                       !.system_initialized = TRUE]

\* one pass of the loop over extractable_fields
ExtractField(profile, field, text) ==
    IF ~Falsy(Get(profile.profile_data, field)) THEN profile
    ELSE LET value == _extract_field_value(field, text)
         IN  IF Falsy(value) THEN profile
             ELSE [profile EXCEPT
                     !.profile_data = Put(@, field, value),
                     !.identity_key = IF field = "dni" /\ Falsy(@) THEN value ELSE @]

ExtractAll(profile, text) ==
    ExtractField(ExtractField(ExtractField(ExtractField(profile, "dni", text),
                                           "name", text), "email", text), "phone", text)

\* an extraction that takes the newest dni the caller states
universal_extract_takes_latest(state) ==
    LET last_msg == _last_human_text(state)
        value == IF last_msg = "" THEN None ELSE _extract_field_value("dni", last_msg)
        profile == ExtractAll(state.client_profile, last_msg)
        latest == IF Falsy(value) THEN profile
                  ELSE [profile EXCEPT !.profile_data = Put(@, "dni", value),
                                       !.identity_key = value]
    IN  IF last_msg = "" THEN state
        ELSE [state EXCEPT !.client_profile = latest,
                           !.missing_required_fields =
                               _compute_missing_fields(latest, state.intent)]

universal_extract(state) ==
    LET last_msg == _last_human_text(state)
        profile == ExtractAll(state.client_profile, last_msg)
        changed == \E field \in {"dni", "name", "email", "phone"} :
                      /\ Falsy(Get(state.client_profile.profile_data, field))
                      /\ ~Falsy(_extract_field_value(field, last_msg))
    IN  IF last_msg = "" THEN state
        ELSE IF changed
        THEN [state EXCEPT !.client_profile = profile,
                           !.missing_required_fields =
                               _compute_missing_fields(profile, state.intent)]
        ELSE state

\* a merge that keeps what the caller stated
Hydrate_keeps_stated(profile_data, crm_record) ==
    LET keys == {k \in RecordFields :
                    ~Falsy(crm_record[k]) /\ Falsy(Get(profile_data, k))}
    IN  [k \in (DOMAIN profile_data) \cup keys |->
           IF k \in keys THEN crm_record[k] ELSE profile_data[k]]

\* the merge of a directory record into profile_data: every truthy field of
\* the record but interaction_history overwrites
Hydrate(profile_data, crm_record) ==
    LET keys == {k \in RecordFields : ~Falsy(crm_record[k])}
    IN  [k \in (DOMAIN profile_data) \cup keys |->
           IF k \in keys THEN crm_record[k] ELSE profile_data[k]]

\* the node queries the directory
CrmSyncLooksUp(state) ==
    /\ ~state.client_profile.is_verified
    /\ ~Falsy(Get(state.client_profile.profile_data, "dni"))

crm_sync(state, db) ==
    LET profile == state.client_profile
        dni == Get(profile.profile_data, "dni")
    IN  IF profile.is_verified THEN state
        ELSE IF Falsy(dni) THEN state
        ELSE IF lookup_user(db, dni) # {}
        THEN LET crm_record == CHOOSE r \in lookup_user(db, dni) : TRUE
                 hydrated == [profile EXCEPT
                                !.identity_key = dni,
                                !.is_verified = TRUE,
                                !.is_new_customer = FALSE,
                                !.interaction_history = crm_record.interaction_history,
                                !.profile_data = Hydrate(@, crm_record)]
             IN  [state EXCEPT !.client_profile = hydrated,
                               !.missing_required_fields =
                                   _compute_missing_fields(hydrated, state.intent)]
        ELSE [state EXCEPT !.client_profile.is_new_customer = TRUE]

\* the router without its recomputation of missing_required_fields
checklist_router_keeps_missing(state) ==
    LET last_msg == _last_human_text(state)
        detected == IF last_msg # "" THEN _detect_intent(last_msg) ELSE state.intent
        intent == IF state.booking.status = "offered" /\ detected = "collect_data"
                  THEN "booking" ELSE detected
    IN  [state EXCEPT
           !.intent = intent,
           !.interrupted_by_faq =
               IF intent = "faq" /\ state.current_slot # "" THEN TRUE ELSE @]

checklist_router(state) ==
    LET last_msg == _last_human_text(state)
        detected == IF last_msg # "" THEN _detect_intent(last_msg) ELSE state.intent
        intent == IF state.booking.status = "offered" /\ detected = "collect_data"
                  THEN "booking" ELSE detected
    IN  [state EXCEPT
           !.intent = intent,
           !.interrupted_by_faq =
               IF intent = "faq" /\ state.current_slot # "" THEN TRUE ELSE @,
           !.missing_required_fields =
               _compute_missing_fields(state.client_profile, intent)]

\* a greeting node that says nothing
greet_silent(state) == state

greet(state) ==
    LET profile == state.client_profile
        name == GetOr(profile.profile_data, "name", "")
        history == profile.interaction_history
        text == IF profile.is_verified /\ name # ""
                THEN IF history # <<>>
                     THEN <<"¡Hola, ", name, "! Bienvenido/a de nuevo a Omvyx. Veo que su última visita fue el ",
                            Last(history).date, " por ", Last(history).summary,
                            ". ¿En qué puedo ayudarle hoy?">>
                     ELSE <<"¡Hola, ", name, "! Bienvenido/a de nuevo a Omvyx. ¿En qué puedo ayudarle hoy?">>
                ELSE IF name # ""
                THEN <<"¡Hola, ", name, "! Bienvenido/a a Omvyx. ¿En qué puedo ayudarle hoy?">>
                ELSE <<"¡Hola! Bienvenido/a a Omvyx. ¿En qué puedo ayudarle hoy?">>
    IN  [state EXCEPT !.messages = Append(@, AIMessage(text))]

\* an answer that never returns to the open question
handle_faq_no_resume(state) ==
    LET found == search_faq(_last_human_text(state))
        answer == IF Falsy(found)
                  THEN "Lo siento, no tengo información sobre eso. ¿Puedo ayudarle con algo más?"
                  ELSE found
    IN  [state EXCEPT !.messages = Append(@, AIMessage(<<answer>>)),
                      !.interrupted_by_faq = FALSE]

handle_faq(state) ==
    LET found == search_faq(_last_human_text(state))
        answer == IF Falsy(found)
                  THEN "Lo siento, no tengo información sobre eso. ¿Puedo ayudarle con algo más?"
                  ELSE found
        missing == state.missing_required_fields
        text == IF state.interrupted_by_faq /\ missing # <<>>
                THEN <<answer, " Pero volviendo a sus datos, ", LowerPrompt(missing[1])>>
                ELSE <<answer>>
    IN  [state EXCEPT !.messages = Append(@, AIMessage(text)),
                      !.interrupted_by_faq = FALSE]

collect_data(state) ==
    LET missing == state.missing_required_fields
        profile == state.client_profile
        name == GetOr(profile.profile_data, "name", "")
    IN  IF missing = <<>>
        THEN [state EXCEPT
                !.messages = Append(@, AIMessage(
                    IF profile.is_verified
                    THEN <<"He encontrado su expediente, ", name,
                           ". Ya tengo todos sus datos. ¿Le gustaría reservar una cita o necesita algo más?">>
                    ELSE <<"Perfecto, ", name,
                           ". Ya tengo todos sus datos registrados. ¿Le gustaría reservar una cita?">>)),
                !.current_slot = ""]
        ELSE [state EXCEPT
                !.messages = Append(@, AIMessage(<<FIELD_PROMPTS[missing[1]]>>)),
                !.current_slot = missing[1]]

end_call(state) ==
    LET name == GetOr(state.client_profile.profile_data, "name", "")
    IN  [state EXCEPT !.messages = Append(@, AIMessage(
            IF name # "" THEN <<"Ha sido un placer atenderle, ", name, ". ¡Hasta pronto!">>
            ELSE <<"Gracias por llamar a Omvyx. ¡Hasta pronto!">>))]

respond(state) == state

\* re.search of the date pattern in the last caller utterance
DateMatch(text) == IF text = "" THEN None ELSE Utterance(text).date_match

\* " o ".join(alts)
RECURSIVE JoinO(_)
JoinO(alts) ==
    IF alts = <<>> THEN <<>>
    ELSE IF Len(alts) = 1 THEN alts
    ELSE <<alts[1], " o ">> \o JoinO(Tail(alts))

\* manage_booking returns the state its update gives (state) and the slots it
\* passed to book_slot (booked).  Its branches:
\* the checklist is incomplete
\* a precondition branch that already notes the slot asked for
BookingNeedsData_notes_slot(state) ==
    LET missing == state.missing_required_fields
        date_match == DateMatch(_last_human_text(state))
    IN  [state |-> [state EXCEPT
            !.messages = Append(@, AIMessage(
                <<"Con gusto le ayudo a reservar una cita. Pero primero necesito algunos datos. ",
                  FIELD_PROMPTS[missing[1]]>>)),
            !.intent = "collect_data",
            !.current_slot = missing[1],
            !.booking = IF Falsy(date_match) THEN @
                        ELSE [@ EXCEPT !.requested_date = date_match,
                                       !.status = "checking"]],
         booked |-> {}]

BookingNeedsData(state) ==
    LET missing == state.missing_required_fields
    IN  [state |-> [state EXCEPT
            !.messages = Append(@, AIMessage(
                <<"Con gusto le ayudo a reservar una cita. Pero primero necesito algunos datos. ",
                  FIELD_PROMPTS[missing[1]]>>)),
            !.intent = "collect_data",
            !.current_slot = missing[1]],
         booked |-> {}]

\* no requested_date and no date in the utterance
BookingAskDate(state) ==
    [state |-> [state EXCEPT
        !.messages = Append(@, AIMessage(
            <<"¿Para qué fecha y hora le gustaría la cita? Por ejemplo: 2026-02-11 10:00">>))],
     booked |-> {}]

\* an availability check that saves the booking as it was while checking
BookingCheck_stays_checking(state, booking, busySlots) ==
    LET result == check_availability(booking.requested_date, busySlots)
    IN  IF result.available
        THEN [state |-> [state EXCEPT
                 !.messages = Append(@, AIMessage(
                     <<"¡Listo! Su cita ha quedado confirmada para el ",
                       booking.requested_date, ". ¿Necesita algo más?">>)),
                 !.booking = [requested_date |-> booking.requested_date,
                              confirmed_slot |-> booking.requested_date,
                              status |-> "confirmed"]],
              booked |-> {booking.requested_date}]
        ELSE [state |-> [state EXCEPT
                 !.messages = Append(@, AIMessage(
                     IF result.alternatives # <<>>
                     THEN <<"Lo siento, el ", booking.requested_date,
                            " no está disponible. Tengo disponibilidad el ">>
                          \o JoinO(result.alternatives)
                          \o <<". ¿Le viene bien alguna de estas opciones?">>
                     ELSE <<"Lo siento, ",
                            IF result.error = None THEN "No hay disponibilidad."
                            ELSE result.error,
                            " ¿Desea intentar otra fecha?">>)),
                 !.booking = [requested_date |-> booking.requested_date,
                              confirmed_slot |-> None,
                              status |-> "checking"]],
              booked |-> {}]

\* an availability check that books the requested slot whenever the
\* calendar has anything to offer
BookingCheck_books_unchecked(state, booking, busySlots) ==
    LET result == check_availability(booking.requested_date, busySlots)
    IN  IF result.available \/ result.alternatives # <<>>
        THEN [state |-> [state EXCEPT
                 !.messages = Append(@, AIMessage(
                     <<"¡Listo! Su cita ha quedado confirmada para el ",
                       booking.requested_date, ". ¿Necesita algo más?">>)),
                 !.booking = [requested_date |-> booking.requested_date,
                              confirmed_slot |-> booking.requested_date,
                              status |-> "confirmed"]],
              booked |-> {booking.requested_date}]
        ELSE [state |-> [state EXCEPT
                 !.messages = Append(@, AIMessage(
                     IF result.alternatives # <<>>
                     THEN <<"Lo siento, el ", booking.requested_date,
                            " no está disponible. Tengo disponibilidad el ">>
                          \o JoinO(result.alternatives)
                          \o <<". ¿Le viene bien alguna de estas opciones?">>
                     ELSE <<"Lo siento, ",
                            IF result.error = None THEN "No hay disponibilidad."
                            ELSE result.error,
                            " ¿Desea intentar otra fecha?">>)),
                 !.booking = [requested_date |-> booking.requested_date,
                              confirmed_slot |-> None,
                              status |-> "offered"]],
              booked |-> {}]

\* booking.status == "checking"
BookingCheck(state, booking, busySlots) ==
    LET result == check_availability(booking.requested_date, busySlots)
    IN  IF result.available
        THEN [state |-> [state EXCEPT
                 !.messages = Append(@, AIMessage(
                     <<"¡Listo! Su cita ha quedado confirmada para el ",
                       booking.requested_date, ". ¿Necesita algo más?">>)),
                 !.booking = [requested_date |-> booking.requested_date,
                              confirmed_slot |-> booking.requested_date,
                              status |-> "confirmed"]],
              booked |-> {booking.requested_date}]
        ELSE [state |-> [state EXCEPT
                 !.messages = Append(@, AIMessage(
                     IF result.alternatives # <<>>
                     THEN <<"Lo siento, el ", booking.requested_date,
                            " no está disponible. Tengo disponibilidad el ">>
                          \o JoinO(result.alternatives)
                          \o <<". ¿Le viene bien alguna de estas opciones?">>
                     ELSE <<"Lo siento, ",
                            IF result.error = None THEN "No hay disponibilidad."
                            ELSE result.error,
                            " ¿Desea intentar otra fecha?">>)),
                 !.booking = [requested_date |-> booking.requested_date,
                              confirmed_slot |-> None,
                              status |-> "offered"]],
              booked |-> {}]

\* an answer handler that books the slot first asked for
BookingOffered_books_requested(state, date_match, busySlots) ==
    IF ~Falsy(date_match)
    THEN IF check_availability(date_match, busySlots).available
         THEN [state |-> [state EXCEPT
                  !.messages = Append(@, AIMessage(
                      <<"¡Perfecto! Cita confirmada para el ", date_match,
                        ". ¿Algo más en lo que pueda ayudarle?">>)),
                  !.booking = [requested_date |-> state.booking.requested_date,
                               confirmed_slot |-> state.booking.requested_date,
                               status |-> "confirmed"]],
               booked |-> {state.booking.requested_date}]
         ELSE [state |-> [state EXCEPT
                  !.messages = Append(@, AIMessage(
                      <<"Ese horario tampoco está disponible. ¿Quiere probar otra fecha?">>))],
               booked |-> {}]
    ELSE [state |-> [state EXCEPT
             !.messages = Append(@, AIMessage(
                 <<"Entendido. ¿Para qué fecha y hora le gustaría la cita?">>)),
             !.booking = BookingRequest],
          booked |-> {}]

\* booking.status == "offered": the caller answers the offer
BookingOffered(state, date_match, busySlots) ==
    IF ~Falsy(date_match)
    THEN IF check_availability(date_match, busySlots).available
         THEN [state |-> [state EXCEPT
                  !.messages = Append(@, AIMessage(
                      <<"¡Perfecto! Cita confirmada para el ", date_match,
                        ". ¿Algo más en lo que pueda ayudarle?">>)),
                  !.booking = [requested_date |-> date_match,
                               confirmed_slot |-> date_match,
                               status |-> "confirmed"]],
               booked |-> {date_match}]
         ELSE [state |-> [state EXCEPT
                  !.messages = Append(@, AIMessage(
                      <<"Ese horario tampoco está disponible. ¿Quiere probar otra fecha?">>))],
               booked |-> {}]
    ELSE [state |-> [state EXCEPT
             !.messages = Append(@, AIMessage(
                 <<"Entendido. ¿Para qué fecha y hora le gustaría la cita?">>)),
             !.booking = BookingRequest],
          booked |-> {}]

\* a reset that sets the status only
BookingFallback_keeps_slot(state) ==
    [state |-> [state EXCEPT
        !.messages = Append(@, AIMessage(
            <<"¿Le gustaría reservar una cita? Dígame la fecha y hora deseada.">>)),
        !.booking = [@ EXCEPT !.status = "idle"]],
     booked |-> {}]

\* any other status with a requested_date
BookingFallback(state) ==
    [state |-> [state EXCEPT
        !.messages = Append(@, AIMessage(
            <<"¿Le gustaría reservar una cita? Dígame la fecha y hora deseada.">>)),
        !.booking = BookingRequest],
     booked |-> {}]

\* a booking node that does not look at the checklist first
manage_booking_skips_checklist(state, busySlots) ==
    LET date_match == DateMatch(_last_human_text(state))
        stored == state.booking
        booking == IF Falsy(stored.requested_date) /\ ~Falsy(date_match)
                   THEN [requested_date |-> date_match, confirmed_slot |-> None,
                         status |-> "checking"]
                   ELSE stored
    IN  IF Falsy(stored.requested_date) /\ Falsy(date_match)
        THEN BookingAskDate(state)
        ELSE IF booking.status = "checking"
        THEN BookingCheck(state, booking, busySlots)
        ELSE IF booking.status = "offered"
        THEN BookingOffered(state, date_match, busySlots)
        ELSE BookingFallback(state)

manage_booking(state, busySlots) ==
    LET date_match == DateMatch(_last_human_text(state))
        stored == state.booking
        booking == IF Falsy(stored.requested_date) /\ ~Falsy(date_match)
                   THEN [requested_date |-> date_match, confirmed_slot |-> None,
                         status |-> "checking"]
                   ELSE stored
    IN  IF state.missing_required_fields # <<>> THEN BookingNeedsData(state)
        ELSE IF Falsy(stored.requested_date) /\ Falsy(date_match)
        THEN BookingAskDate(state)
        ELSE IF booking.status = "checking"
        THEN BookingCheck(state, booking, busySlots)
        ELSE IF booking.status = "offered"
        THEN BookingOffered(state, date_match, busySlots)
        ELSE BookingFallback(state)

\* the node calls check_availability
ManageBookingChecks(state) ==
    /\ state.missing_required_fields = <<>>
    /\ \/ /\ Falsy(state.booking.requested_date)
          /\ ~Falsy(DateMatch(_last_human_text(state)))
       \/ /\ ~Falsy(state.booking.requested_date)
          /\ state.booking.status = "checking"
       \/ /\ ~Falsy(state.booking.requested_date)
          /\ state.booking.status = "offered"
          /\ ~Falsy(DateMatch(_last_human_text(state)))

\* the node calls update_user or create_user
SaveCrmWrites(state) ==
    LET profile == state.client_profile
    IN  /\ ~Falsy(Get(profile.profile_data, "dni"))
        /\ \/ profile.is_verified
           \/ profile.is_new_customer /\ ~Falsy(Get(profile.profile_data, "name"))

\* a save that marks the created customer verified and leaves
\* is_new_customer as it was
save_crm_keeps_new(state, db) ==
    LET profile == state.client_profile
        data == profile.profile_data
        dni == Get(data, "dni")
    IN  IF Falsy(dni) THEN [state |-> state, users |-> db]
        ELSE IF profile.is_verified
        THEN [state |-> state,
              users |-> update_user(db, dni,
                            [name |-> GetOr(data, "name", ""),
                             email |-> GetOr(data, "email", ""),
                             phone |-> GetOr(data, "phone", "")])]
        ELSE IF profile.is_new_customer /\ ~Falsy(Get(data, "name"))
        THEN [state |-> [state EXCEPT !.client_profile.is_verified = TRUE],
              users |-> create_user(db, GetOr(data, "name", ""), dni,
                                    GetOr(data, "email", ""), GetOr(data, "phone", ""))]
        ELSE [state |-> state, users |-> db]

\* save_crm: the state its update gives and the directory afterwards
save_crm(state, db) ==
    LET profile == state.client_profile
        data == profile.profile_data
        dni == Get(data, "dni")
    IN  IF Falsy(dni) THEN [state |-> state, users |-> db]
        ELSE IF profile.is_verified
        THEN [state |-> state,
              users |-> update_user(db, dni,
                            [name |-> GetOr(data, "name", ""),
                             email |-> GetOr(data, "email", ""),
                             phone |-> GetOr(data, "phone", "")])]
        ELSE IF profile.is_new_customer /\ ~Falsy(Get(data, "name"))
        THEN [state |-> [state EXCEPT !.client_profile.is_verified = TRUE,
                                      !.client_profile.is_new_customer = FALSE],
              users |-> create_user(db, GetOr(data, "name", ""), dni,
                                    GetOr(data, "email", ""), GetOr(data, "phone", ""))]
        ELSE [state |-> state, users |-> db]

(***************************************************************************)
(* graph/workflow.py: the edges                                            *)
(***************************************************************************)
\* a dispatch that treats the reply to an offer as data collection
route_after_checklist_skips_offer(state) ==
    LET intent == state.intent
    IN  IF \/ /\ state.missing_required_fields # <<>>
              /\ intent \notin {"faq", "booking", "end_call", "greeting"}
           \/ /\ state.booking.status = "offered"
              /\ intent = "booking"
        THEN "collect_data"
        ELSE CASE intent = "greeting" -> "greet"
               [] intent = "faq" -> "handle_faq"
               [] intent = "collect_data" -> "collect_data"
               [] intent = "booking" -> "manage_booking"
               [] intent = "end_call" -> "end_call"
               [] intent = "unknown" -> "collect_data"

\* a dispatch whose greeting edge leads straight to save_crm
route_after_checklist_skips_greet(state) ==
    LET intent == state.intent
    IN  IF state.missing_required_fields # <<>>
           /\ intent \notin {"faq", "booking", "end_call", "greeting"}
        THEN "collect_data"
        ELSE CASE intent = "greeting" -> "save_crm"
               [] intent = "faq" -> "handle_faq"
               [] intent = "collect_data" -> "collect_data"
               [] intent = "booking" -> "manage_booking"
               [] intent = "end_call" -> "end_call"
               [] intent = "unknown" -> "collect_data"

\* a dispatch whose greeting edge leads back to checklist_router
route_after_checklist_cycles(state) ==
    LET intent == state.intent
    IN  IF state.missing_required_fields # <<>>
           /\ intent \notin {"faq", "booking", "end_call", "greeting"}
        THEN "collect_data"
        ELSE CASE intent = "greeting" -> "checklist_router"
               [] intent = "faq" -> "handle_faq"
               [] intent = "collect_data" -> "collect_data"
               [] intent = "booking" -> "manage_booking"
               [] intent = "end_call" -> "end_call"
               [] intent = "unknown" -> "collect_data"

route_after_checklist(state) ==
    LET intent == state.intent
    IN  IF state.missing_required_fields # <<>>
           /\ intent \notin {"faq", "booking", "end_call", "greeting"}
        THEN "collect_data"
        ELSE CASE intent = "greeting" -> "greet"
               [] intent = "faq" -> "handle_faq"
               [] intent = "collect_data" -> "collect_data"
               [] intent = "booking" -> "manage_booking"
               [] intent = "end_call" -> "end_call"
               [] intent = "unknown" -> "collect_data"

route_after_booking(state) ==
    IF state.intent = "collect_data" THEN "collect_data" ELSE "save_crm"

(***************************************************************************)
(* The state.                                                              *)
(*   users          tools/crm.py _MOCK_USERS                               *)
(*   busy           tools/calendar.py _BUSY_SLOTS                          *)
(*   store          the checkpointer: the latest saved channel values of   *)
(*                  each thread (thread_id = call_id)                      *)
(*   tasks          the asyncio tasks running handle_generation, in the    *)
(*                  order they were created                                *)
(*   current_task   retell_websocket's current_task of each call: an index *)
(*                  of tasks, 0 for None                                   *)
(*   sent           what each call's WebSocket has been sent               *)
(*   next_response_id  the response_id the transport's next event carries  *)
(*   pings          the keepalive events received so far                   *)
(*   open           the calls whose WebSocket is connected                 *)
(*                                                                         *)
(* A task is [call, response_id, text, status, node, state, base]: text is *)
(* the user_text handle_generation hands the graph; status is pending (not *)
(* yet run), running, done, cancelled or failed; node is the graph node    *)
(* (or the send) it runs next; state is the channel values of its          *)
(* invocation; base is what the thread's store held when it began.         *)
(***************************************************************************)
VARIABLES users, busy, store, tasks, current_task, sent, next_response_id,
          pings, open

vars == <<users, busy, store, tasks, current_task, sent, next_response_id,
          pings, open>>

TaskIds == 1..Len(tasks)

TasksOf(c) == {t \in TaskIds : tasks[t].call = c}

\* asyncio.Task.done()
Done(t) == tasks[t].status \in {"done", "cancelled", "failed"}

\* a turn execution that has started and has neither ended nor been cancelled
InProgress(t) == tasks[t].status = "running"

Init ==
    /\ users = _MOCK_USERS
    /\ busy = _BUSY_SLOTS
    /\ store = [c \in AllCalls |-> OmvyxState]
    /\ tasks = <<>>
    /\ current_task = [c \in AllCalls |-> 0]
    /\ sent = [c \in AllCalls |-> <<>>]
    /\ next_response_id = [c \in AllCalls |-> 1]
    /\ pings = <<>>
    /\ open = {"call-1"}

(***************************************************************************)
(* main.py: the receive loop of retell_websocket                           *)
(***************************************************************************)
\* handle_generation's user_text: the last user turn of the transcript,
\* "Hola" when there is none
UserText(transcript_text) == IF transcript_text = "" THEN "Hola" ELSE transcript_text

\* if current_task and not current_task.done(): current_task.cancel()
CancelCurrent(ts, c) ==
    IF current_task[c] # 0 /\ ~Done(current_task[c])
    THEN [ts EXCEPT ![current_task[c]].status = "cancelled"]
    ELSE ts

\* asyncio.create_task(handle_generation(transcript, response_id, call_id))
CreateTask(ts, c, transcript_text, response_id) ==
    Append(ts, [call |-> c, response_id |-> response_id,
                text |-> UserText(transcript_text),
                status |-> "pending", node |-> "start",
                state |-> OmvyxState, base |-> OmvyxState])

\* interaction_type == "call_details": a task is created when the agent is the
\* initiator, and the task current_task names is not cancelled
CallDetails(c) ==
    /\ c \in open
    /\ \E initiator \in {"agent", "user"} :
         IF initiator = "agent"
         THEN /\ tasks' = CreateTask(tasks, c, "", 0)
              /\ current_task' = [current_task EXCEPT ![c] = Len(tasks) + 1]
         ELSE UNCHANGED <<tasks, current_task>>
    /\ UNCHANGED <<users, busy, store, sent, next_response_id, pings, open>>

\* the response_required and reminder_required branches do the same
StartTurn(c, transcript_text) ==
    /\ tasks' = CreateTask(CancelCurrent(tasks, c), c, transcript_text,
                           next_response_id[c])
    /\ current_task' = [current_task EXCEPT ![c] = Len(tasks) + 1]
    /\ next_response_id' = [next_response_id EXCEPT ![c] = @ + 1]
    /\ UNCHANGED <<users, busy, store, sent, pings, open>>

\* the utterances the transport's events carry in the runs with overlapping
\* events
SupervisorTexts ==
    {"", "Hola, mi DNI es 12345678A", "Quiero una cita para 2026-02-09 10:00",
     "¿Cuál es el horario?", "Eso es todo, adiós"}

ResponseRequired(c) ==
    /\ c \in open
    /\ \E transcript_text \in SupervisorTexts : StartTurn(c, transcript_text)

ReminderRequired(c) ==
    /\ c \in open
    /\ \E transcript_text \in SupervisorTexts : StartTurn(c, transcript_text)

\* interaction_type == "update_only"
Interrupt(c) ==
    /\ c \in open
    /\ tasks' = CancelCurrent(tasks, c)
    /\ UNCHANGED <<users, busy, store, current_task, sent, next_response_id,
                   pings, open>>

\* interaction_type == "ping_pong"
\* a keepalive handler that stamps its echo itself
PingPong_restamps(c) ==
    /\ c \in open
    /\ Len(pings) < MaxPings
    /\ \E timestamp \in {1000, 2000} :
         /\ sent' = [sent EXCEPT ![c] = Append(@,
                       [interaction_type |-> "ping_pong", timestamp |-> 0])]
         /\ pings' = Append(pings, [call |-> c, timestamp |-> timestamp])
    /\ UNCHANGED <<users, busy, store, tasks, current_task, next_response_id, open>>

PingPong(c) ==
    /\ c \in open
    /\ Len(pings) < MaxPings
    /\ \E timestamp \in {1000, 2000} :
         /\ sent' = [sent EXCEPT ![c] = Append(@,
                       [interaction_type |-> "ping_pong", timestamp |-> timestamp])]
         /\ pings' = Append(pings, [call |-> c, timestamp |-> timestamp])
    /\ UNCHANGED <<users, busy, store, tasks, current_task, next_response_id, open>>

\* a frame that is not JSON, or JSON that is not an object: json.loads or
\* data.get raises inside the try that holds the while loop, the loop is left
\* through `except Exception`, the finally clause cancels current_task and
\* the handler returns, which ends the connection
MalformedFrame(c) ==
    /\ c \in open
    /\ open' = open \ {c}
    /\ tasks' = CancelCurrent(tasks, c)
    /\ UNCHANGED <<users, busy, store, current_task, sent, next_response_id, pings>>

\* a response_required event that arrives when no turn execution of the call
\* is in progress: the caller speaks after the previous response has ended
Quiescent(c) == \A t \in TasksOf(c) : Done(t)

SequentialTurn(c) ==
    /\ c \in open
    /\ Quiescent(c)
    /\ Len(tasks) < MaxTurns
    /\ \E transcript_text \in WireTexts : StartTurn(c, transcript_text)

\* the utterances of the runs in which call_details events arrive during the
\* caller's turns
OverlapTexts ==
    {"Soy Ana Torres 99887766C", "Quiero una cita para 2026-02-09 10:00",
     "¿Cuál es el horario?", "Eso es todo, adiós"}

\* a response_required event of these runs: the caller speaks when no turn
\* execution of the call is in progress
OverlapTurn(c) ==
    /\ c \in open
    /\ Quiescent(c)
    /\ \E transcript_text \in OverlapTexts : StartTurn(c, transcript_text)

\* the utterances of the runs with two calls
TwoCallTexts ==
    {"", "Soy Ana Torres 99887766C", "Mi DNI es 99887766C", "¿Cuál es el horario?",
     "Quiero una cita para 2026-02-09 10:00",
     "Mi DNI es 12345678A, quiero una cita para 2026-02-09 12:00",
     "Eso es todo, adiós"}

\* a response_required event of these runs: the caller of either call speaks
\* when no turn execution of that call is in progress
CallTurn(c) ==
    /\ c \in open
    /\ Quiescent(c)
    /\ Len(tasks) < MaxCallTurns
    /\ \E transcript_text \in TwoCallTexts : StartTurn(c, transcript_text)

(***************************************************************************)
(* main.py handle_generation and the graph run it awaits                   *)
(***************************************************************************)
Running(t, node) ==
    /\ t \in TaskIds
    /\ tasks[t].status = "running"
    /\ tasks[t].node = node

\* a checkpointer that keeps one entry for all threads
Checkpoint_one_thread(t, state, next) ==
    /\ tasks' = [tasks EXCEPT ![t].state = state, ![t].node = next]
    /\ store' = [c \in AllCalls |-> state]

\* a node has run: its update is applied to the invocation's channel values
\* and these are saved as the thread's latest checkpoint
Checkpoint(t, state, next) ==
    /\ tasks' = [tasks EXCEPT ![t].state = state, ![t].node = next]
    /\ store' = [store EXCEPT ![tasks[t].call] = state]

\* the input {"messages": [HumanMessage(user_text)], "call_id": cid} applied to
\* the thread's saved channel values (messages has the append reducer)
ApplyInput(state, text, cid) ==
    [state EXCEPT !.messages = Append(@, HumanMessage(text)), !.call_id = cid]

\* The event loop runs the tasks in the order they were created.  The task
\* reaches graph.ainvoke, which loads the thread's checkpoint, applies the
\* input and saves the result before the entry node runs.
Begin(t) ==
    /\ t \in TaskIds
    /\ tasks[t].status = "pending"
    /\ \A earlier \in 1..(t - 1) : tasks[earlier].status # "pending"
    /\ LET c == tasks[t].call
           loaded == ApplyInput(store[c], tasks[t].text, c)
       IN  /\ tasks' = [tasks EXCEPT ![t].status = "running",
                                     ![t].node = "init_system",
                                     ![t].base = store[c],
                                     ![t].state = loaded]
           /\ store' = [store EXCEPT ![c] = loaded]
    /\ UNCHANGED <<users, busy, current_task, sent, next_response_id, pings, open>>

InitSystem(t) ==
    /\ Running(t, "init_system")
    /\ Checkpoint(t, init_system(tasks[t].state), "universal_extract")
    /\ UNCHANGED <<users, busy, current_task, sent, next_response_id, pings, open>>

UniversalExtract(t) ==
    /\ Running(t, "universal_extract")
    /\ Checkpoint(t, universal_extract(tasks[t].state), "crm_sync")
    /\ UNCHANGED <<users, busy, current_task, sent, next_response_id, pings, open>>

CrmSync(t) ==
    /\ Running(t, "crm_sync")
    /\ Checkpoint(t, crm_sync(tasks[t].state, users), "checklist_router")
    /\ UNCHANGED <<users, busy, current_task, sent, next_response_id, pings, open>>

ChecklistRouter(t) ==
    /\ Running(t, "checklist_router")
    /\ LET routed == checklist_router(tasks[t].state)
       IN  Checkpoint(t, routed, route_after_checklist(routed))
    /\ UNCHANGED <<users, busy, current_task, sent, next_response_id, pings, open>>

Greet(t) ==
    /\ Running(t, "greet")
    /\ Checkpoint(t, greet(tasks[t].state), "save_crm")
    /\ UNCHANGED <<users, busy, current_task, sent, next_response_id, pings, open>>

HandleFaq(t) ==
    /\ Running(t, "handle_faq")
    /\ Checkpoint(t, handle_faq(tasks[t].state), "save_crm")
    /\ UNCHANGED <<users, busy, current_task, sent, next_response_id, pings, open>>

CollectData(t) ==
    /\ Running(t, "collect_data")
    /\ Checkpoint(t, collect_data(tasks[t].state), "save_crm")
    /\ UNCHANGED <<users, busy, current_task, sent, next_response_id, pings, open>>

ManageBooking(t) ==
    /\ Running(t, "manage_booking")
    /\ LET run == manage_booking(tasks[t].state, busy)
       IN  /\ Checkpoint(t, run.state, route_after_booking(run.state))
           /\ busy' = busy \cup run.booked
    /\ UNCHANGED <<users, current_task, sent, next_response_id, pings, open>>

EndCall(t) ==
    /\ Running(t, "end_call")
    /\ Checkpoint(t, end_call(tasks[t].state), "save_crm")
    /\ UNCHANGED <<users, busy, current_task, sent, next_response_id, pings, open>>

SaveCrm(t) ==
    /\ Running(t, "save_crm")
    /\ LET run == save_crm(tasks[t].state, users)
       IN  /\ Checkpoint(t, run.state, "respond")
           /\ users' = run.users
    /\ UNCHANGED <<busy, current_task, sent, next_response_id, pings, open>>

\* respond is the last node: graph.ainvoke returns the final state
Respond(t) ==
    /\ Running(t, "respond")
    /\ Checkpoint(t, respond(tasks[t].state), "send_content")
    /\ UNCHANGED <<users, busy, current_task, sent, next_response_id, pings, open>>

\* the last AI message of the result, <<>> for ""
AgentReply(result) ==
    LET ais == {i \in 1..Len(result.messages) : result.messages[i].type = "ai"}
    IN  IF ais = {} THEN <<>> ELSE result.messages[MaxOf(ais)].content

\* if agent_reply: await ws.send_json({... "content_complete": False})
SendContent(t) ==
    /\ Running(t, "send_content")
    /\ tasks[t].call \in open
    /\ LET agent_reply == AgentReply(tasks[t].state)
       IN  sent' = [sent EXCEPT ![tasks[t].call] =
                      IF agent_reply # <<>>
                      THEN Append(@, [response_id |-> tasks[t].response_id,
                                      content |-> agent_reply,
                                      content_complete |-> FALSE])
                      ELSE @]
    /\ tasks' = [tasks EXCEPT ![t].node = "send_complete"]
    /\ UNCHANGED <<users, busy, store, current_task, next_response_id, pings, open>>

\* await ws.send_json({... "content": "", "content_complete": True})
SendComplete(t) ==
    /\ Running(t, "send_complete")
    /\ tasks[t].call \in open
    /\ sent' = [sent EXCEPT ![tasks[t].call] =
                  Append(@, [response_id |-> tasks[t].response_id,
                             content |-> <<>>,
                             content_complete |-> TRUE])]
    /\ tasks' = [tasks EXCEPT ![t].status = "done", ![t].node = "end"]
    /\ UNCHANGED <<users, busy, store, current_task, next_response_id, pings, open>>

\* a directory, availability or knowledge call raises: the node applies no
\* update, graph.ainvoke raises and handle_generation logs the exception
CallsCollaborator(t) ==
    CASE tasks[t].node = "crm_sync" -> CrmSyncLooksUp(tasks[t].state)
      [] tasks[t].node = "handle_faq" -> TRUE
      [] tasks[t].node = "manage_booking" -> ManageBookingChecks(tasks[t].state)
      [] tasks[t].node = "save_crm" -> SaveCrmWrites(tasks[t].state)
      [] OTHER -> FALSE

CollaboratorRaises(t) ==
    /\ t \in TaskIds
    /\ tasks[t].status = "running"
    /\ CallsCollaborator(t)
    /\ tasks' = [tasks EXCEPT ![t].status = "failed"]
    /\ UNCHANGED <<users, busy, store, current_task, sent, next_response_id,
                   pings, open>>

\* ws.send_json after the receive loop has ended raises: handle_generation
\* logs the exception
SendOnClosed(t) ==
    /\ t \in TaskIds
    /\ tasks[t].status = "running"
    /\ tasks[t].node \in {"send_content", "send_complete"}
    /\ tasks[t].call \notin open
    /\ tasks' = [tasks EXCEPT ![t].status = "failed"]
    /\ UNCHANGED <<users, busy, store, current_task, sent, next_response_id,
                   pings, open>>

\* graph.ainvoke as one function: the nodes along the edges of build_graph,
\* from the loaded state with the input applied; its result, the directory
\* and the calendar afterwards
RunGraph(loaded, db, slots) ==
    LET routed == checklist_router(crm_sync(universal_extract(init_system(loaded)), db))
        node == route_after_checklist(routed)
        acted == CASE node = "greet" -> [state |-> greet(routed), booked |-> {}]
                   [] node = "handle_faq" -> [state |-> handle_faq(routed), booked |-> {}]
                   [] node = "collect_data" -> [state |-> collect_data(routed), booked |-> {}]
                   [] node = "manage_booking" -> manage_booking(routed, slots)
                   [] node = "end_call" -> [state |-> end_call(routed), booked |-> {}]
        collected == IF node = "manage_booking"
                        /\ route_after_booking(acted.state) = "collect_data"
                     THEN collect_data(acted.state)
                     ELSE acted.state
        saved == save_crm(collected, db)
    IN  [state |-> respond(saved.state), users |-> saved.users,
         busy |-> slots \cup acted.booked]

Pipeline(t) ==
    \/ Begin(t)
    \/ InitSystem(t)
    \/ UniversalExtract(t)
    \/ CrmSync(t)
    \/ ChecklistRouter(t)
    \/ Greet(t)
    \/ HandleFaq(t)
    \/ CollectData(t)
    \/ ManageBooking(t)
    \/ EndCall(t)
    \/ SaveCrm(t)
    \/ Respond(t)
    \/ SendContent(t)
    \/ SendComplete(t)

(***************************************************************************)
(* The specifications.                                                     *)
(*   Spec         the transport sends any event at any time                *)
(*   FaultSpec    Spec, and a collaborator call may raise                  *)
(*   TurnSpec     the caller speaks when the previous response has ended   *)
(*   OverlapSpec  TurnSpec with call_details events at any time            *)
(*   LiveSpec     FaultSpec where every ready task is run                  *)
(*   PingSpec     Spec with ping_pong events at any time                   *)
(*   FrameSpec    FaultSpec with frames that cannot be decoded              *)
(*   TwoCallSpec  two calls, each caller speaking in turn                   *)
(*   TurnLiveSpec TurnSpec where every ready task is run                   *)
(*   StartSpec    call_details and response_required events at any time    *)
(* The number of turn executions created is capped in the next-state       *)
(* relations.                                                              *)
(***************************************************************************)
Next ==
    \/ \E c \in AllCalls :
         \/ Len(tasks) < MaxTasks /\ CallDetails(c)
         \/ Len(tasks) < MaxTasks /\ ResponseRequired(c)
         \/ Len(tasks) < MaxTasks /\ ReminderRequired(c)
         \/ Interrupt(c)
    \/ \E t \in 1..MaxTasks : Pipeline(t)

Spec == Init /\ [][Next]_vars

FaultNext ==
    \/ Next
    \/ \E t \in 1..MaxTasks : CollaboratorRaises(t)

FaultSpec == Init /\ [][FaultNext]_vars

\* the runs in which call_details events arrive between the caller's turns,
\* whether or not a turn execution is in progress
StartNext ==
    \/ \E c \in AllCalls :
         \/ Len(tasks) < MaxStarts /\ CallDetails(c)
         \/ Len(tasks) < MaxStarts /\ ResponseRequired(c)
    \/ \E t \in 1..MaxStarts : Pipeline(t)

StartSpec == Init /\ [][StartNext]_vars

TurnNext ==
    \/ \E c \in AllCalls : SequentialTurn(c)
    \/ \E t \in 1..MaxTurns : Pipeline(t)

TurnSpec == Init /\ [][TurnNext]_vars

\* a response_required event of the runs that check progress: any utterance
\* of the catalogue, when no turn execution is in progress
LiveTurn(c) ==
    /\ c \in open
    /\ Quiescent(c)
    /\ Len(tasks) < MaxLiveTurns
    /\ \E transcript_text \in WireTexts : StartTurn(c, transcript_text)

TurnLiveNext ==
    \/ \E c \in AllCalls : LiveTurn(c)
    \/ \E t \in 1..MaxLiveTurns : Pipeline(t)

\* the sequential turns with every turn execution scheduled: the event loop
\* runs a task that can take a step
TurnLiveSpec ==
    /\ Init
    /\ [][TurnLiveNext]_vars
    /\ \A t \in 1..MaxLiveTurns : WF_vars(Pipeline(t))

OverlapNext ==
    \/ \E c \in AllCalls :
         \/ Len(tasks) < MaxOverlap /\ CallDetails(c)
         \/ Len(tasks) < MaxOverlap /\ OverlapTurn(c)
    \/ \E t \in 1..MaxOverlap : Pipeline(t)

OverlapSpec == Init /\ [][OverlapNext]_vars

\* FaultSpec with the event loop's scheduling: a task that is ready to take
\* its next step is run (asyncio resumes every task whose await has completed)
LiveSpec ==
    /\ Init
    /\ [][FaultNext]_vars
    /\ \A t \in 1..MaxTasks : WF_vars(Pipeline(t))

PingNext ==
    \/ Next
    \/ \E c \in AllCalls : PingPong(c)

PingSpec == Init /\ [][PingNext]_vars

FrameNext ==
    \/ FaultNext
    \/ \E c \in AllCalls : MalformedFrame(c)
    \/ \E t \in 1..MaxTasks : SendOnClosed(t)

FrameSpec == Init /\ [][FrameNext]_vars

\* two connections are open
TwoCallInit ==
    /\ users = _MOCK_USERS
    /\ busy = _BUSY_SLOTS
    /\ store = [c \in AllCalls |-> OmvyxState]
    /\ tasks = <<>>
    /\ current_task = [c \in AllCalls |-> 0]
    /\ sent = [c \in AllCalls |-> <<>>]
    /\ next_response_id = [c \in AllCalls |-> 1]
    /\ pings = <<>>
    /\ open = AllCalls

TwoCallNext ==
    \/ \E c \in AllCalls : CallTurn(c)
    \/ \E t \in 1..MaxCallTurns : Pipeline(t)

TwoCallSpec == TwoCallInit /\ [][TwoCallNext]_vars

(***************************************************************************)
(* The properties                                                          *)
(***************************************************************************)
\* every turn execution of the call has run to its end
AfterCompletedTurns(c) ==
    /\ TasksOf(c) # {}
    /\ \A t \in TasksOf(c) : tasks[t].status = "done"

Known(state, field) == ~Falsy(Get(state.client_profile.profile_data, field))

\* the fields of fields whose value in the state's profile_data is empty, in
\* the order of fields
EmptyAmong(state, fields) ==
    SelectSeq(fields, LAMBDA field : ~Known(state, field))

\* C1 as stated: after any sequence of completed turns the persisted
\* missing_required_fields is the subsequence of (dni, name, intent) whose
\* value in profile_data is empty, in checklist order.
C1_MissingIsEmptyChecklistFields ==
    \A c \in AllCalls :
        AfterCompletedTurns(c) =>
            store[c].missing_required_fields = EmptyAmong(store[c], REQUIRED_FIELDS)

\* C1 amended: after any sequence of completed turns the persisted
\* missing_required_fields is the subsequence of (dni, name) whose value in
\* profile_data is empty, in checklist order, and "intent" is never in it.
C1_MissingIsEmptyDniName ==
    \A c \in AllCalls :
        AfterCompletedTurns(c) =>
            /\ store[c].missing_required_fields = EmptyAmong(store[c], <<"dni", "name">>)
            /\ "intent" \notin Range(store[c].missing_required_fields)

\* two turns have completed, the dni is known and the name is the one field
\* listed
C1_Witness ==
    \E c \in AllCalls :
        /\ AfterCompletedTurns(c)
        /\ Cardinality(TasksOf(c)) >= 2
        /\ Known(store[c], "dni")
        /\ ~Known(store[c], "name")
        /\ store[c].missing_required_fields = <<"name">>

\* turn execution b is the one created next after a for the same call
NextTurnOf(a, b) ==
    /\ a < b
    /\ tasks[a].call = tasks[b].call
    /\ \A t \in (a + 1)..(b - 1) : tasks[t].call # tasks[a].call

\* the turn execution has passed graph.ainvoke's loading of the checkpoint
Started(t) == tasks[t].node # "start"

\* C2: when turn A is started and cancelled before it completes and turn B,
\* the next turn of the call, runs to completion, B has run on the state
\* that was persisted before A: the state B loaded is the state A loaded, so
\* nothing A did is in B's result.
C2_CancelledTurnLeavesNoTrace ==
    \A a \in TaskIds : \A b \in TaskIds :
        ( /\ NextTurnOf(a, b)
          /\ tasks[a].status = "cancelled"
          /\ Started(a)
          /\ tasks[b].status = "done" )
        => /\ tasks[b].base = tasks[a].base
           /\ store[tasks[b].call] = tasks[b].state

\* C3: for all sequences of turns, a checklist field that has a non-empty
\* value in the persisted profile_data keeps a non-empty value and is not in
\* missing_required_fields after any step that follows, be it a later stage
\* of the same turn or a stage of a later turn.
C3_KnownFieldNeverMissingLater ==
    [][ \A c \in AllCalls : \A field \in Range(REQUIRED_FIELDS) :
          Known(store[c], field) =>
              /\ Known(store'[c], field)
              /\ field \notin Range(store'[c].missing_required_fields) ]_vars

\* the checklist fields a reply prompts for: collect_data and the booking
\* precondition use FIELD_PROMPTS[f], the FAQ resumption its lower case
PromptedFields(msg) ==
    {field \in DOMAIN FIELD_PROMPTS :
        \/ FIELD_PROMPTS[field] \in Range(msg.content)
        \/ LowerPrompt(field) \in Range(msg.content)}

\* the step appends a reply to the turn's state
EmitsReply(t) ==
    /\ Len(tasks'[t].state.messages) > Len(tasks[t].state.messages)
    /\ Last(tasks'[t].state.messages).type = "ai"

\* the turn execution has run the extraction
Extracted(t) == tasks[t].node \notin {"start", "init_system", "universal_extract"}

\* C4: every checklist prompt a turn emits is for a field whose value in the
\* turn's profile_data is empty at that moment; a value that the utterance of
\* a turn yields for a checklist field is in profile_data once the turn has
\* run the extraction, and no prompt of that turn or of a later turn is for
\* that field.
C4_PromptsOnlyForEmptyFields ==
    [][ \A t \in TaskIds :
          /\ EmitsReply(t) =>
               \A field \in PromptedFields(Last(tasks'[t].state.messages)) :
                   /\ ~Known(tasks[t].state, field)
                   /\ \A u \in TasksOf(tasks[t].call) :
                          (u <= t /\ Extracted(u)) =>
                              Falsy(_extract_field_value(field, tasks[u].text))
          /\ Extracted(t) =>
               \A field \in Range(REQUIRED_FIELDS) :
                   ~Falsy(_extract_field_value(field, tasks[t].text)) =>
                       Known(tasks[t].state, field) ]_vars

\* crm_sync found a directory match in this turn and save_crm has not run
HydratedThisTurn(t) ==
    /\ tasks[t].status = "running"
    /\ tasks[t].node \in {"checklist_router", "greet", "handle_faq", "collect_data",
                          "manage_booking", "end_call", "save_crm"}
    /\ ~tasks[t].base.client_profile.is_verified
    /\ tasks[t].state.client_profile.is_verified

\* C5: after Identity Resolution has found a directory match, for the rest
\* of the turn every field the directory holds a non-empty value for is
\* absent from missing_required_fields and has the directory's value in
\* profile_data, whatever the caller had stated for it.
C5_DirectoryValueWins ==
    \A t \in TaskIds :
        HydratedThisTurn(t) =>
            \A crm_record \in lookup_user(users, tasks[t].state.client_profile.identity_key) :
                \A k \in RecordFields :
                    ~Falsy(crm_record[k]) =>
                        /\ Get(tasks[t].state.client_profile.profile_data, k) = crm_record[k]
                        /\ k \notin Range(tasks[t].state.missing_required_fields)

\* the caller had said "Ana Torres" and the directory's name replaced it
C5_Witness ==
    \E t \in TaskIds :
        /\ HydratedThisTurn(t)
        /\ lookup_user(users, tasks[t].state.client_profile.identity_key) # {}
        /\ Get(tasks[t].base.client_profile.profile_data, "name") = "Ana Torres"
        /\ Get(tasks[t].state.client_profile.profile_data, "name") = "María García"
        /\ tasks[t].state.missing_required_fields = <<>>

\* C6: for every call and every sequence of transport events, at most one
\* turn execution of the call is in progress (started, not ended and not
\* cancelled).
C6_OneExecutionPerCall ==
    \A c \in AllCalls :
        Cardinality({t \in TasksOf(c) : InProgress(t)}) <= 1

\* the step is the receive loop's handling of a response_required or a
\* reminder_required event of call c: both give the execution they create
\* the call's next response_id
StartsTurn(c) == next_response_id'[c] # next_response_id[c]

\* the step is the receive loop's handling of an interrupt of call c while
\* an execution of the call is running
Interrupts(c) ==
    /\ \E t \in TasksOf(c) : InProgress(t)
    /\ Interrupt(c)

\* the step is turn execution t entering graph.ainvoke
Starts(t) == tasks[t].status = "pending" /\ tasks'[t].status = "running"

\* C7: a response_required or reminder_required event that arrives while an
\* execution of the call is running leaves none running when it has created
\* its own; an interrupt leaves none running and creates none; the executions of a call start in the order
\* their events arrived.
C7_EventsCancelTheRunningExecution ==
    [][ /\ \A c \in AllCalls :
             /\ StartsTurn(c) =>
                  /\ Len(tasks') = Len(tasks) + 1
                  /\ \A t \in TasksOf(c) : tasks'[t].status # "running"
             /\ Interrupts(c) =>
                  /\ Len(tasks') = Len(tasks)
                  /\ \A t \in TasksOf(c) : tasks'[t].status # "running"
        /\ \A t \in TaskIds :
             Starts(t) =>
                 \A earlier \in TasksOf(tasks[t].call) :
                     earlier < t => tasks[earlier].status # "pending" ]_vars

\* C8: when a stage of a turn has failed, the state persisted for the call is
\* the state that was persisted before the turn started (as long as no later
\* turn of the call has started).
C8_FailedTurnLeavesStateUntouched ==
    \A t \in TaskIds :
        ( /\ tasks[t].status = "failed"
          /\ \A u \in TasksOf(tasks[t].call) \ {t} :
                 \/ u < t /\ tasks[u].status = "done"
                 \/ u > t /\ ~Started(u) )
        => store[tasks[t].call] = tasks[t].base

\* C9: in every reachable state, persisted or held by a turn execution,
\* booking.confirmed_slot is non-null only if booking.status is "confirmed".
C9_ConfirmedSlotOnlyWhenConfirmed ==
    /\ \A c \in AllCalls :
           store[c].booking.confirmed_slot # None => store[c].booking.status = "confirmed"
    /\ \A t \in TaskIds :
           tasks[t].state.booking.confirmed_slot # None =>
               tasks[t].state.booking.status = "confirmed"

\* a booking was confirmed in an earlier turn and a later turn has reset it
C9_Witness ==
    \E t \in TaskIds :
        /\ tasks[t].status = "done"
        /\ tasks[t].base.booking.status = "confirmed"
        /\ tasks[t].base.booking.confirmed_slot = "2026-02-09 12:00"
        /\ "2026-02-09 12:00" \in busy
        /\ store[tasks[t].call].booking = BookingRequest

\* the step is a run of manage_booking by an execution of call c
ManageBookingRuns(c) ==
    \E t \in TasksOf(c) :
        /\ Running(t, "manage_booking")
        /\ tasks'[t].node # "manage_booking"

\* one of the enumerated transitions of booking.status; a request that
\* manage_booking parses and checks in the same run passes through
\* "checking" inside the run
EnumeratedTransition(old, new, reply) ==
    LET result == check_availability(new.requested_date, busy)
    IN  \/ /\ old.status = "idle" /\ new.status = "confirmed"
           /\ ~Falsy(new.requested_date)
           /\ result.available
        \/ /\ old.status = "idle" /\ new.status = "offered"
           /\ ~Falsy(new.requested_date)
           /\ ~result.available
           /\ result.alternatives # <<>>
        \/ /\ old.status = "offered" /\ new.status = "confirmed"
           /\ ~Falsy(DateMatch(reply))
           /\ result.available
        \/ /\ old.status = "offered" /\ new.status = "idle"
           /\ Falsy(DateMatch(reply))
        \/ /\ old.status \in {"confirmed", "failed"} /\ new.status = "idle"

\* C10: across any sequence of turns the persisted booking changes only in a
\* run of manage_booking, and booking.status changes only along the
\* enumerated transitions: idle to checking to confirmed (slot parsed and
\* available), idle to checking to offered (slot parsed, unavailable, with
\* alternatives), offered to confirmed (reply slot available), offered to
\* idle (no slot in the reply), confirmed or failed to idle.
C10_BookingTransitions ==
    [][ \A c \in AllCalls :
          /\ store'[c].booking # store[c].booking => ManageBookingRuns(c)
          /\ store'[c].booking.status # store[c].booking.status =>
                 EnumeratedTransition(store[c].booking, store'[c].booking,
                                      _last_human_text(store[c])) ]_vars

\* the step is turn execution t running manage_booking
BookingStep(t) ==
    /\ Running(t, "manage_booking")
    /\ tasks'[t].node # "manage_booking"

\* the step is a booking turn with a complete checklist that requests a slot
\* the calendar reports unavailable
RequestsUnavailable(t) ==
    /\ BookingStep(t)
    /\ tasks[t].state.missing_required_fields = <<>>
    /\ Falsy(tasks[t].state.booking.requested_date)
    /\ ~Falsy(DateMatch(tasks[t].text))
    /\ ~check_availability(DateMatch(tasks[t].text), busy).available

\* the step is a turn with a complete checklist whose reply names one of the
\* alternatives of the offered request, and that alternative is available
AcceptsAlternative(t) ==
    /\ BookingStep(t)
    /\ tasks[t].state.missing_required_fields = <<>>
    /\ tasks[t].state.booking.status = "offered"
    /\ DateMatch(tasks[t].text) \in
           Range(check_availability(tasks[t].state.booking.requested_date, busy).alternatives)
    /\ check_availability(DateMatch(tasks[t].text), busy).available

\* the alternative is confirmed and book_slot was called for exactly it
ConfirmsReplySlot(t) ==
    /\ tasks'[t].state.booking.status = "confirmed"
    /\ tasks'[t].state.booking.confirmed_slot = DateMatch(tasks[t].text)
    /\ store'[tasks[t].call].booking = tasks'[t].state.booking
    /\ busy' = busy \cup {DateMatch(tasks[t].text)}

Answered(t) ==
    tasks[t].node \in {"save_crm", "respond", "send_content", "send_complete", "end"}

\* the turn began with current_slot non-empty and its utterance was
\* classified faq: handle_faq has run
FaqDuringSlotFilling(t) ==
    /\ Answered(t)
    /\ tasks[t].base.current_slot # ""
    /\ tasks[t].state.intent = "faq"

\* search_faq's answer, or handle_faq's text when there is none
KnowledgeAnswer(text) ==
    IF Falsy(search_faq(text))
    THEN "Lo siento, no tengo información sobre eso. ¿Puedo ayudarle con algo más?"
    ELSE search_faq(text)

\* C12 as stated: with current_slot = f at the start of the turn, a faq
\* utterance gives the knowledge answer followed by the exact prompt for f,
\* and interrupted_by_faq is false when the turn ends.
C12_FaqResumesWithExactPrompt ==
    \A t \in TaskIds :
        FaqDuringSlotFilling(t) =>
            /\ Last(tasks[t].state.messages).type = "ai"
            /\ Last(tasks[t].state.messages).content[1] = KnowledgeAnswer(tasks[t].text)
            /\ Last(Last(tasks[t].state.messages).content)
                   = FIELD_PROMPTS[tasks[t].base.current_slot]
            /\ ~tasks[t].state.interrupted_by_faq

\* C12, amended: with current_slot = f at the start of the turn, a faq
\* utterance leaves interrupted_by_faq false when the turn ends, and when f
\* is still missing after the turn's extraction the reply is the knowledge
\* answer followed by " Pero volviendo a sus datos, " and the prompt for f
\* in lower case.
C12_FaqResumesWithLowerCasePrompt ==
    \A t \in TaskIds :
        FaqDuringSlotFilling(t) =>
            /\ ~tasks[t].state.interrupted_by_faq
            /\ tasks[t].base.current_slot
                   \in Range(tasks[t].state.missing_required_fields)
               => Last(tasks[t].state.messages)
                      = AIMessage(<<KnowledgeAnswer(tasks[t].text),
                                    " Pero volviendo a sus datos, ",
                                    LowerPrompt(tasks[t].base.current_slot)>>)

\* the caller was asked for the name, asked for the opening hours instead,
\* and the turn has ended
C12_Witness ==
    \E t \in TaskIds :
        /\ FaqDuringSlotFilling(t)
        /\ tasks[t].status = "done"
        /\ tasks[t].base.current_slot = "name"
        /\ tasks[t].text = "¿Cuál es el horario?"
        /\ LowerPrompt("name") \in Range(AgentReply(store[tasks[t].call]))
        /\ ~store[tasks[t].call].interrupted_by_faq

\* the label checklist_router starts from: the classifier's label for the
\* last caller utterance, or the stored intent when there is none
DetectedLabel(state) ==
    IF _last_human_text(state) # ""
    THEN _detect_intent(_last_human_text(state))
    ELSE state.intent

\* checklist_router runs in turn t with booking.status = offered
RoutesWhileOffered(t) ==
    /\ Running(t, "checklist_router")
    /\ tasks'[t].node # "checklist_router"
    /\ tasks[t].state.booking.status = "offered"

\* C13 as stated: whenever booking.status = offered when checklist_router
\* runs, the intent becomes booking and manage_booking is the next node,
\* whatever the classifier's label.
C13_OfferedAlwaysForcesBooking ==
    [][ \A t \in TaskIds :
          RoutesWhileOffered(t) =>
              /\ tasks'[t].state.intent = "booking"
              /\ tasks'[t].node = "manage_booking" ]_vars

\* C13 amended: whenever booking.status = offered when checklist_router
\* runs, a label of collect_data or booking gives intent booking and
\* manage_booking as the next node; every other label is kept and its own
\* node runs instead of manage_booking.
C13_OfferedForcesBookingForDataReplies ==
    [][ \A t \in TaskIds :
          RoutesWhileOffered(t) =>
              /\ DetectedLabel(tasks[t].state) \in {"collect_data", "booking"} =>
                     /\ tasks'[t].state.intent = "booking"
                     /\ tasks'[t].node = "manage_booking"
              /\ DetectedLabel(tasks[t].state) \notin {"collect_data", "booking"} =>
                     /\ tasks'[t].state.intent = DetectedLabel(tasks[t].state)
                     /\ tasks'[t].node # "manage_booking" ]_vars

\* a reply labelled collect_data arrived while a slot was on offer and the
\* turn is in manage_booking with intent booking
C13_Witness ==
    \E t \in TaskIds :
        /\ tasks[t].node = "manage_booking"
        /\ tasks[t].base.booking.status = "offered"
        /\ _detect_intent(tasks[t].text) = "collect_data"
        /\ tasks[t].state.intent = "booking"

\* how many times SYSTEM_PROMPT stands in a state's messages
Directives(state) ==
    Cardinality({i \in 1..Len(state.messages) : state.messages[i] = SYSTEM_PROMPT})

\* init_system runs in turn t
InitStep(t) ==
    /\ Running(t, "init_system")
    /\ tasks'[t].node # "init_system"

\* C14: over the turns of a call SYSTEM_PROMPT is put into the messages
\* exactly once, by the first turn that runs init_system: a run with
\* system_initialized false appends it and sets the flag, a run with
\* system_initialized true appends nothing and changes no state, and from the
\* first run on the call's saved messages hold it exactly once.
C14_DirectiveInjectedOnce ==
    [][ \A t \in TaskIds :
          InitStep(t) =>
              /\ tasks[t].state.system_initialized =>
                     /\ tasks'[t].state = tasks[t].state
                     /\ store'[tasks[t].call] = tasks[t].state
                     /\ Directives(tasks[t].state) = 1
              /\ ~tasks[t].state.system_initialized =>
                     /\ Directives(tasks[t].state) = 0
                     /\ tasks'[t].state.messages
                            = Append(tasks[t].state.messages, SYSTEM_PROMPT)
                     /\ tasks'[t].state.system_initialized
              /\ \A later \in TaskIds :
                     tasks[later].call = tasks[t].call =>
                         Directives(tasks'[later].state) <= 1
              /\ Directives(store'[tasks[t].call]) = 1 ]_vars

\* a second completed turn of a call whose messages still hold SYSTEM_PROMPT
\* once, after two caller utterances
C14_Witness ==
    \E t \in TaskIds :
        /\ tasks[t].status = "done"
        /\ tasks[t].base.system_initialized
        /\ Directives(store[tasks[t].call]) = 1
        /\ Cardinality({i \in 1..Len(store[tasks[t].call].messages) :
                           store[tasks[t].call].messages[i].type = "human"}) >= 2

\* the single completed turn of a fresh call with the utterance
\* "Hola, mi DNI es 12345678A"
GreetingWithDni(t) ==
    /\ tasks[t].status = "done"
    /\ tasks[t].base = OmvyxState
    /\ tasks[t].text = "Hola, mi DNI es 12345678A"

\* C15: on a fresh call the turn "Hola, mi DNI es 12345678A", with María
\* García's record in the directory, ends with is_verified true and no
\* missing field, and its reply holds the directory's name and the date or
\* summary of the last interaction_history entry, and no checklist prompt.
C15_GreetingWithDniRecallsHistory ==
    \A t \in TaskIds :
        (GreetingWithDni(t) /\ "12345678A" \in DOMAIN users) =>
            LET final == tasks[t].state
                reply == Range(AgentReply(final))
                last_visit == Last(users["12345678A"].interaction_history)
            IN  /\ final.client_profile.is_verified
                /\ final.missing_required_fields = <<>>
                /\ users["12345678A"].name \in reply
                /\ \/ last_visit.summary \in reply
                   \/ last_visit.date \in reply
                /\ PromptedFields(Last(final.messages)) = {}

\* save_crm runs in turn t
SaveStep(t) ==
    /\ Running(t, "save_crm")
    /\ tasks'[t].node # "save_crm"

\* the step is the INSERT branch of save_crm: it alone turns is_verified on
\* in that node
Creates(t) ==
    /\ SaveStep(t)
    /\ ~tasks[t].state.client_profile.is_verified
    /\ tasks'[t].state.client_profile.is_verified

\* C16: within one call save_crm calls create_user at most once, and only
\* in a turn with is_verified false, is_new_customer true and dni and name
\* present, after which is_verified is true and is_new_customer false; in a
\* turn with is_verified true it calls update_user and never create_user.
\* A record enters the directory only by such a create, the create is for an
\* identifier the directory does not hold yet (no earlier create of the
\* call), and a save with is_verified true keeps the directory's identifiers
\* and the profile.
C16_CreateAtMostOncePerCall ==
    [][ /\ \A d \in DOMAIN users' \ DOMAIN users :
              \E t \in TaskIds :
                  /\ Creates(t)
                  /\ Get(tasks[t].state.client_profile.profile_data, "dni") = d
        /\ \A t \in TaskIds :
              /\ Creates(t) =>
                    LET profile == tasks[t].state.client_profile
                        dni == Get(profile.profile_data, "dni")
                    IN  /\ profile.is_new_customer
                        /\ ~Falsy(dni)
                        /\ ~Falsy(Get(profile.profile_data, "name"))
                        /\ ~tasks'[t].state.client_profile.is_new_customer
                        /\ dni \notin DOMAIN users
                        /\ DOMAIN users' = DOMAIN users \cup {dni}
                        /\ users'[dni].name = Get(profile.profile_data, "name")
              /\ (SaveStep(t) /\ tasks[t].state.client_profile.is_verified) =>
                    LET dni == Get(tasks[t].state.client_profile.profile_data, "dni")
                    IN  /\ DOMAIN users' = DOMAIN users
                        /\ tasks'[t].state = tasks[t].state
                        /\ dni \in DOMAIN users =>
                              /\ users'[dni].interaction_history
                                     = users[dni].interaction_history
                              /\ users'[dni].loyalty_level = users[dni].loyalty_level ]_vars

\* crm_sync runs in turn t
SyncStep(t) ==
    /\ Running(t, "crm_sync")
    /\ tasks'[t].node # "crm_sync"

\* the step is the HYDRATE branch of crm_sync: it alone turns is_verified on
\* in that node
Hydrates(t) ==
    /\ SyncStep(t)
    /\ ~tasks[t].state.client_profile.is_verified
    /\ tasks'[t].state.client_profile.is_verified

\* C17: once is_verified is true, every later run of crm_sync looks nothing
\* up (its result is the same whatever the directory holds) and changes no
\* state, so the profile of a call is hydrated at most once, also when the
\* dni is stated again: no execution of the call is verified yet when a
\* hydration happens.
C17_HydratedAtMostOncePerCall ==
    [][ \A t \in TaskIds :
          /\ (SyncStep(t) /\ tasks[t].state.client_profile.is_verified) =>
                /\ tasks'[t].state = tasks[t].state
                /\ crm_sync(tasks[t].state, _MOCK_USERS) = tasks[t].state
                /\ crm_sync(tasks[t].state, EmptyDict) = tasks[t].state
          /\ Hydrates(t) =>
                \A other \in TaskIds :
                    tasks[other].call = tasks[t].call =>
                        ~tasks[other].state.client_profile.is_verified ]_vars

\* the response_id values of the turn executions of the model
ResponseIds == 0..MaxTasks

\* a frame with content for response_id r has been sent on call c
ContentSent(c, r) ==
    \E i \in 1..Len(sent[c]) :
        /\ "response_id" \in DOMAIN sent[c][i]
        /\ sent[c][i].response_id = r
        /\ ~sent[c][i].content_complete

\* a frame with content_complete true for response_id r has been sent on call c
CompleteSent(c, r) ==
    \E i \in 1..Len(sent[c]) :
        /\ "response_id" \in DOMAIN sent[c][i]
        /\ sent[c][i].response_id = r
        /\ sent[c][i].content_complete

\* C18: for every response_id for which a content frame is sent, a frame
\* with content_complete true and the same response_id is eventually sent,
\* whatever events the transport sends later.
C18_ContentIsEventuallyCompleted ==
    \A c \in AllCalls : \A r \in ResponseIds :
        ContentSent(c, r) ~> CompleteSent(c, r)

\* graph.ainvoke has returned in turn execution t: the checkpoint of its last
\* node is the call's saved state
Committed(t) ==
    /\ t \in TaskIds
    /\ tasks[t].node \in {"send_content", "send_complete", "end"}

\* the reply of turn execution t and a frame with content_complete true have
\* been sent for its response_id
ResponseSent(t) ==
    /\ t \in TaskIds
    /\ \E i \in 1..Len(sent[tasks[t].call]) :
          /\ "response_id" \in DOMAIN sent[tasks[t].call][i]
          /\ sent[tasks[t].call][i].response_id = tasks[t].response_id
          /\ sent[tasks[t].call][i].content = AgentReply(tasks[t].state)
          /\ ~sent[tasks[t].call][i].content_complete
    /\ CompleteSent(tasks[t].call, tasks[t].response_id)

\* C19: every turn execution whose result is saved as the call's state also
\* sends its reply and a frame with content_complete true for its
\* response_id: there is no turn that is committed and never answered.
C19_CommittedTurnIsAnswered ==
    \A t \in 1..MaxTasks : Committed(t) ~> ResponseSent(t)

\* a directory, availability or knowledge call has raised in turn execution t
Raised(t) ==
    /\ t \in TaskIds
    /\ tasks[t].status = "failed"

\* C20: when a directory, availability or knowledge call fails during a
\* turn, the turn is not aborted: its pipeline still gets past respond and a
\* reply followed by a frame with content_complete true is sent for the
\* turn's response_id.
C20_FailedCallStillAnswers ==
    \A t \in 1..MaxTasks :
        Raised(t) ~> (Committed(t) /\ ResponseSent(t))

\* the step handles a ping_pong event of call c
Keepalive(c) ==
    /\ Len(pings') = Len(pings) + 1
    /\ Last(pings').call = c

\* C21: a ping_pong event produces exactly one echo with the timestamp of
\* the event and changes nothing else: no turn execution is cancelled,
\* replaced or created, and the saved state of the call stays as it is.
C21_KeepaliveOnlyEchoes ==
    [][ \A c \in AllCalls :
          Keepalive(c) =>
              /\ sent'[c] = Append(sent[c], [interaction_type |-> "ping_pong",
                                             timestamp |-> Last(pings').timestamp])
              /\ \A other \in AllCalls \ {c} : sent'[other] = sent[other]
              /\ tasks' = tasks
              /\ current_task' = current_task
              /\ store' = store
              /\ users' = users /\ busy' = busy ]_vars

\* a keepalive was echoed while a turn execution was running, and that
\* execution has since sent its complete response
C21_Witness ==
    \E c \in AllCalls : \E i \in 1..Len(sent[c]) : \E t \in TasksOf(c) :
        /\ "timestamp" \in DOMAIN sent[c][i]
        /\ sent[c][i].timestamp = 2000
        /\ tasks[t].status = "done"
        /\ i < Len(sent[c])
        /\ i > 1

\* the messages reducer only appends: before is an initial part of after
IsPrefix(before, after) ==
    /\ Len(before) <= Len(after)
    /\ SubSeq(after, 1, Len(before)) = before

ActionNodes == {"greet", "handle_faq", "collect_data", "manage_booking", "end_call"}

\* the node of an intent in the conditional edges of checklist_router
NodeOfIntent(intent) ==
    CASE intent = "greeting" -> "greet"
      [] intent = "faq" -> "handle_faq"
      [] intent = "collect_data" -> "collect_data"
      [] intent = "booking" -> "manage_booking"
      [] intent = "end_call" -> "end_call"
      [] OTHER -> "collect_data"

\* C23: in every completed turn exactly one action node runs and exactly one
\* ai message is produced, and the node is the one the routing decision
\* selects: collect_data when missing_required_fields is non-empty and the
\* intent is none of faq, booking, end_call, greeting, otherwise the node of
\* the intent.  (After checklist_router the selected node runs, after an
\* action node save_crm runs, and a completed turn has appended one reply.)
C23_OneActionStagePerTurn ==
    [][ \A t \in TaskIds :
          /\ (Running(t, "checklist_router") /\ tasks'[t].node # "checklist_router") =>
                tasks'[t].node =
                    IF /\ tasks'[t].state.missing_required_fields # <<>>
                       /\ tasks'[t].state.intent
                              \notin {"faq", "booking", "end_call", "greeting"}
                    THEN "collect_data"
                    ELSE NodeOfIntent(tasks'[t].state.intent)
          /\ (tasks[t].status = "running" /\ tasks[t].node \in ActionNodes
                /\ tasks'[t].node # tasks[t].node) =>
                tasks'[t].node = "save_crm"
          /\ tasks'[t].status = "done" =>
                Cardinality({i \in (Len(tasks'[t].base.messages) + 1)
                                     ..Len(tasks'[t].state.messages) :
                                tasks'[t].state.messages[i].type = "ai"}) = 1 ]_vars

\* manage_booking runs in turn t with a checklist field missing
BooksWithoutData(t) ==
    /\ BookingStep(t)
    /\ tasks[t].state.missing_required_fields # <<>>

\* C24: when manage_booking runs with missing_required_fields non-empty,
\* booking stays as it is, neither check_availability nor book_slot is
\* called, intent becomes collect_data and the reply is the prompt for
\* missing_required_fields[0]; so book_slot is only ever called by a turn
\* whose checklist fields are all known.
C24_NoBookingWithoutChecklist ==
    [][ /\ \A t \in TaskIds :
             BooksWithoutData(t) =>
                 LET before == tasks[t].state
                     after == tasks'[t].state
                 IN  /\ after.booking = before.booking
                     /\ store'[tasks[t].call].booking = before.booking
                     /\ ~ManageBookingChecks(before)
                     /\ busy' = busy
                     /\ after.intent = "collect_data"
                     /\ Last(after.messages).type = "ai"
                     /\ PromptedFields(Last(after.messages))
                            = {before.missing_required_fields[1]}
                     /\ tasks'[t].node = "collect_data"
        /\ busy' # busy =>
             \E t \in TaskIds :
                 /\ BookingStep(t)
                 /\ tasks[t].state.missing_required_fields = <<>>
                 /\ _compute_missing_fields(tasks[t].state.client_profile,
                                            tasks[t].state.intent) = <<>> ]_vars

\* a caller asked for a slot before giving any data: the turn went from
\* manage_booking to collect_data with booking still idle
C24_Witness ==
    \E t \in TaskIds :
        /\ tasks[t].node = "collect_data"
        /\ _detect_intent(tasks[t].text) = "booking"
        /\ ~Falsy(DateMatch(tasks[t].text))
        /\ tasks[t].state.intent = "collect_data"
        /\ tasks[t].state.booking = BookingRequest

\* manage_booking runs in turn t with the checklist complete and asks
\* check_availability about the slot of the utterance or the stored one
ChecksSlot(t) ==
    /\ BookingStep(t)
    /\ ManageBookingChecks(tasks[t].state)

\* the slot that step asks about
CheckedSlot(t) ==
    IF tasks[t].state.booking.status = "offered"
    THEN DateMatch(tasks[t].text)
    ELSE IF Falsy(tasks[t].state.booking.requested_date)
    THEN DateMatch(tasks[t].text)
    ELSE tasks[t].state.booking.requested_date

\* C25: booking.status becomes offered only in a turn in which
\* check_availability returned at least one alternative; when the slot is
\* unavailable and no alternative is returned, the service's error is the
\* reply and status does not become offered (so that the slot of the next
\* booking utterance is a fresh request).
C25_OfferedOnlyWithAlternatives ==
    [][ \A t \in TaskIds :
          /\ (BookingStep(t) /\ tasks[t].state.booking.status # "offered"
                /\ tasks'[t].state.booking.status = "offered") =>
                /\ ChecksSlot(t)
                /\ check_availability(CheckedSlot(t), busy).alternatives # <<>>
          /\ (ChecksSlot(t) /\ tasks[t].state.booking.status # "offered"
                /\ ~check_availability(CheckedSlot(t), busy).available
                /\ check_availability(CheckedSlot(t), busy).alternatives = <<>>) =>
                /\ check_availability(CheckedSlot(t), busy).error
                       \in Range(Last(tasks'[t].state.messages).content)
                /\ tasks'[t].state.booking.status # "offered" ]_vars

\* universal_extract runs in turn t
ExtractStep(t) ==
    /\ Running(t, "universal_extract")
    /\ tasks'[t].node # "universal_extract"

\* C26: universal_extract never changes a profile_data field that is
\* non-empty and never changes identity_key once it is set; the value of a
\* non-empty field changes only in the hydration of crm_sync.
C26_ExtractionNeverOverwrites ==
    [][ \A t \in TaskIds :
          LET before == tasks[t].state.client_profile
              after == tasks'[t].state.client_profile
          IN  /\ \A k \in DOMAIN before.profile_data :
                    ~Falsy(before.profile_data[k]) =>
                        /\ ExtractStep(t) =>
                               Get(after.profile_data, k) = before.profile_data[k]
                        /\ Get(after.profile_data, k) # before.profile_data[k] =>
                               Hydrates(t)
              /\ (ExtractStep(t) /\ ~Falsy(before.identity_key)) =>
                    after.identity_key = before.identity_key ]_vars

\* the caller states another dni than the one the profile holds, and after
\* the extraction the profile still holds the first
C26_Witness ==
    \E t \in TaskIds :
        /\ tasks[t].node = "crm_sync"
        /\ ~Falsy(_extract_field_value("dni", tasks[t].text))
        /\ ~Falsy(Get(tasks[t].base.client_profile.profile_data, "dni"))
        /\ _extract_field_value("dni", tasks[t].text)
               # Get(tasks[t].base.client_profile.profile_data, "dni")
        /\ Get(tasks[t].state.client_profile.profile_data, "dni")
               = Get(tasks[t].base.client_profile.profile_data, "dni")
        /\ tasks[t].state.client_profile.identity_key
               = tasks[t].base.client_profile.identity_key

\* C27: after an unexpected fault in a turn, a frame that cannot be decoded
\* included, later response_required events of the call are still accepted
\* and processed from the last saved state: no step ends the receive loop of
\* a call, and every turn execution that starts loads the saved state.
C27_CallSurvivesFaults ==
    [][ /\ \A c \in AllCalls : c \in open => c \in open'
        /\ \A t \in TaskIds :
              Starts(t) => tasks'[t].base = store[tasks[t].call] ]_vars

\* the utterances of the turns of call c, in the order of their events
RECURSIVE TextsOfCall(_, _)
TextsOfCall(ts, c) ==
    IF ts = <<>> THEN <<>>
    ELSE (IF Head(ts).call = c THEN <<Head(ts).text>> ELSE <<>>)
             \o TextsOfCall(Tail(ts), c)

\* the turns of one call run alone, one after the other, on a directory and
\* a calendar no other call touches: the saved state, the directory, the
\* calendar and the replies at the end
RECURSIVE SoloRun(_, _)
SoloRun(texts, c) ==
    IF texts = <<>>
    THEN [state |-> OmvyxState, users |-> _MOCK_USERS, busy |-> _BUSY_SLOTS,
          replies |-> <<>>]
    ELSE LET earlier == SoloRun(SubSeq(texts, 1, Len(texts) - 1), c)
             run == RunGraph(ApplyInput(earlier.state, Last(texts), c),
                             earlier.users, earlier.busy)
         IN  [state |-> run.state, users |-> run.users, busy |-> run.busy,
              replies |-> Append(earlier.replies, AgentReply(run.state))]

\* the replies sent on call c so far
RepliesSent(c) ==
    LET frames == SelectSeq(sent[c], LAMBDA frame :
                      "content_complete" \in DOMAIN frame /\ ~frame.content_complete)
    IN  [i \in 1..Len(frames) |-> frames[i].content]

\* call c has had turns and all of them have ended
Finished(c) == TasksOf(c) # {} /\ Quiescent(c)

\* the saved state and the replies of call c are those of its turns run alone
AsAlone(c) ==
    /\ store[c] = SoloRun(TextsOfCall(tasks, c), c).state
    /\ RepliesSent(c) = SoloRun(TextsOfCall(tasks, c), c).replies

\* C28 as stated: the turn executions of different calls share no mutable
\* state: whatever the interleaving of the turns of two calls, the saved
\* state and the replies of each call are those of its turns run without
\* the other call.
C28_CallsDoNotInterfere ==
    \A c \in AllCalls : Finished(c) => AsAlone(c)

\* the other call of the two
OtherCall(c) == CHOOSE d \in AllCalls : d # c

\* C28 amended: the calls share the directory and the calendar and nothing
\* else.  When the turns of the other call, run alone, change neither the
\* directory nor the calendar (or it has had no turn), the saved state and
\* the replies of a call are those of its turns run alone; a call that has
\* had no turn has the initial saved state, no frame and no execution; and
\* every completed execution has saved its own call_id and its reply is
\* among the frames of its own call.
C28_CallsShareOnlyDirectoryAndCalendar ==
    /\ \A c \in AllCalls :
          (Finished(c) /\ SoloRun(TextsOfCall(tasks, OtherCall(c)), OtherCall(c)).users
                              = _MOCK_USERS
                       /\ SoloRun(TextsOfCall(tasks, OtherCall(c)), OtherCall(c)).busy
                              = _BUSY_SLOTS)
              => AsAlone(c)
    /\ \A c \in AllCalls :
          TasksOf(c) = {} =>
              /\ store[c] = OmvyxState
              /\ sent[c] = <<>>
              /\ current_task[c] = 0
    /\ \A t \in TaskIds :
          tasks[t].status = "done" =>
              /\ tasks[t].state.call_id = tasks[t].call
              /\ \E i \in 1..Len(sent[tasks[t].call]) :
                    sent[tasks[t].call][i].content = AgentReply(tasks[t].state)

\* both calls have completed a turn, neither changed the directory or the
\* calendar, and each has the state and the replies of its turns run alone
C28_Witness ==
    /\ \A c \in AllCalls : Finished(c) /\ AsAlone(c)
    /\ users = _MOCK_USERS
    /\ \E c \in AllCalls : Cardinality(TasksOf(c)) = 2
    /\ \E t \in TaskIds : tasks[t].text = "Mi DNI es 99887766C"

\* C29: at the end of every completed turn current_slot is empty or a field
\* that is still in missing_required_fields; it never names a field whose
\* value is known.
C29_ActiveSlotIsStillMissing ==
    \A t \in TaskIds :
        tasks[t].status = "done" =>
            \/ tasks[t].state.current_slot = ""
            \/ /\ tasks[t].state.current_slot
                      \in Range(tasks[t].state.missing_required_fields)
               /\ Falsy(Get(tasks[t].state.client_profile.profile_data,
                            tasks[t].state.current_slot))

\* the position of a node in the compiled graph, counted from the entry
\* point; the two sends of handle_generation follow graph.ainvoke
StageOf(node) ==
    CASE node = "init_system" -> 1
      [] node = "universal_extract" -> 2
      [] node = "crm_sync" -> 3
      [] node = "checklist_router" -> 4
      [] node \in ActionNodes -> 5
      [] node = "save_crm" -> 6
      [] node = "respond" -> 7
      [] node = "send_content" -> 8
      [] node = "send_complete" -> 9
      [] OTHER -> 10

\* C30: every turn runs its stages in the order init_system,
\* universal_extract, crm_sync, checklist_router, action stage, save_crm,
\* respond.  A turn execution starts at init_system; whenever it moves to
\* another node it moves to the next stage, or from manage_booking to
\* collect_data inside the action stage; and it completes only after the
\* sends that follow respond.
C30_StagesRunInOrder ==
    [][ \A t \in TaskIds :
          /\ (tasks[t].status = "pending" /\ tasks'[t].status = "running") =>
                tasks'[t].node = "init_system"
          /\ (tasks[t].status = "running" /\ tasks'[t].node # tasks[t].node) =>
                \/ StageOf(tasks'[t].node) = StageOf(tasks[t].node) + 1
                \/ /\ tasks[t].node = "manage_booking"
                   /\ tasks'[t].node = "collect_data"
          /\ (tasks[t].status # "done" /\ tasks'[t].status = "done") =>
                /\ tasks[t].status = "running"
                /\ tasks[t].node = "send_complete" ]_vars

\* a completed faq turn whose utterance also gave the name: extraction ran,
\* the utterance was routed as faq, and save_crm and respond followed
C30_Witness ==
    \E t \in TaskIds :
        /\ tasks[t].status = "done"
        /\ tasks[t].state.intent = "faq"
        /\ Falsy(Get(tasks[t].base.client_profile.profile_data, "name"))
        /\ Get(tasks[t].state.client_profile.profile_data, "name") = "Están"
        /\ Len(AgentReply(tasks[t].state)) > 0

\* the turn execution was cancelled, or a collaborator call raised in it
Stopped(t) ==
    /\ t \in TaskIds
    /\ tasks[t].status \in {"cancelled", "failed"}

\* graph.ainvoke has not been reached by turn execution t
NotStarted(t) ==
    \/ t \notin TaskIds
    \/ tasks[t].status = "pending"

\* C31: every turn execution that is not cancelled and whose collaborator
\* calls return gets past respond, whatever the utterance and the state it
\* started from: no turn execution stays inside the graph for ever.  (A turn
\* execution that has started never becomes pending again, so once it is in
\* the graph it is eventually past respond, cancelled or failed.)
C31_EveryTurnReachesRespond ==
    \A t \in 1..MaxLiveTurns :
        []<>(NotStarted(t) \/ Committed(t) \/ Stopped(t))

\* a booking turn that went from manage_booking on through collect_data, the
\* longest path of the graph, and got past respond
C31_Witness ==
    \E t \in TaskIds :
        /\ Committed(t)
        /\ _detect_intent(tasks[t].text) = "booking"
        /\ tasks[t].state.intent = "collect_data"
        /\ Len(tasks[t].state.messages) >= Len(tasks[t].base.messages) + 3

\* the states of the calls: what the checkpointer holds for each call and
\* what each turn execution has in hand
CallStates ==
    {store[c] : c \in AllCalls} \cup {tasks[t].state : t \in TaskIds}

\* C32: in every reachable state a booking that is offered or confirmed has
\* an empty missing_required_fields: an offer never coexists with an
\* outstanding checklist field.
C32_OfferOnlyWithCompleteChecklist ==
    \A state \in CallStates :
        state.booking.status \in {"offered", "confirmed"} =>
            state.missing_required_fields = <<>>

\* a call whose checklist was outstanding after one turn and whose saved
\* state holds an offer after a later one
C32_Witness ==
    \E t \in TaskIds :
        /\ tasks[t].status = "done"
        /\ tasks[t].state.booking.status = "offered"
        /\ store[tasks[t].call].booking.status = "offered"
        /\ \E earlier \in 1..(t - 1) :
              /\ tasks[earlier].call = tasks[t].call
              /\ tasks[earlier].state.missing_required_fields # <<>>

\* C33: in every reachable state is_new_customer is the negation of
\* is_verified, and a verified profile has an identity_key and a non-empty
\* dni in profile_data that equals it.
C33_VerifiedProfileIsIdentified ==
    \A state \in CallStates :
        LET profile == state.client_profile
        IN  /\ profile.is_new_customer = ~profile.is_verified
            /\ profile.is_verified =>
                  /\ ~Falsy(profile.identity_key)
                  /\ ~Falsy(Get(profile.profile_data, "dni"))
                  /\ Get(profile.profile_data, "dni") = profile.identity_key

\* a turn in which save_crm created the caller and marked the profile
\* verified, after which the directory holds the caller
C33_Witness ==
    \E t \in TaskIds :
        /\ tasks[t].status = "done"
        /\ ~tasks[t].base.client_profile.is_verified
        /\ tasks[t].state.client_profile.is_verified
        /\ tasks[t].state.client_profile.identity_key = "99887766C"
        /\ lookup_user(users, "99887766C") # {}

\* C34: the booking statuses checking and failed never appear in a call
\* state: booking.status is always one of idle, offered, confirmed, and a
\* confirmed booking has confirmed_slot equal to requested_date.
C34_BookingStatusIsSettled ==
    \A state \in CallStates :
        /\ state.booking.status \in {"idle", "offered", "confirmed"}
        /\ state.booking.status = "confirmed" =>
              /\ ~Falsy(state.booking.confirmed_slot)
              /\ state.booking.confirmed_slot = state.booking.requested_date

\* a completed turn that checked a busy slot and saved an offer, and a
\* completed turn of the same call that confirmed another slot
C34_Witness ==
    \E t \in TaskIds :
        /\ tasks[t].status = "done"
        /\ tasks[t].base.booking.status = "offered"
        /\ tasks[t].state.booking.status = "confirmed"
        /\ tasks[t].state.booking.requested_date # tasks[t].base.booking.requested_date
        /\ store[tasks[t].call].booking = tasks[t].state.booking

\* the messages turn execution t has added to what the checkpointer held
\* when it entered graph.ainvoke
ProducedInTurn(t) ==
    SubSeq(tasks[t].state.messages, Len(tasks[t].base.messages) + 1,
           Len(tasks[t].state.messages))

\* the ai messages among them
RepliesInTurn(t) ==
    SelectSeq(ProducedInTurn(t), LAMBDA msg : msg.type = "ai")

\* C35: every completed turn has appended at least one ai message, and a
\* frame with content is sent only by a turn execution, under its
\* response_id, with the last ai message that same turn execution produced.
C35_ContentIsThisTurnsReply ==
    [][ /\ \A t \in TaskIds :
             (tasks[t].status # "done" /\ tasks'[t].status = "done") =>
                 RepliesInTurn(t) # <<>>
        /\ \A c \in AllCalls :
             (/\ Len(sent'[c]) = Len(sent[c]) + 1
              /\ "content_complete" \in DOMAIN Last(sent'[c])
              /\ ~Last(sent'[c]).content_complete) =>
                 \E t \in TasksOf(c) :
                     /\ Running(t, "send_content")
                     /\ tasks'[t].node = "send_complete"
                     /\ Last(sent'[c]).response_id = tasks[t].response_id
                     /\ RepliesInTurn(t) # <<>>
                     /\ Last(sent'[c]).content = Last(RepliesInTurn(t)).content ]_vars

\* the second turn of a call has been answered with its own reply, which
\* differs from the reply of the first
C35_Witness ==
    \E t \in TaskIds, earlier \in TaskIds :
        /\ earlier < t
        /\ tasks[earlier].call = tasks[t].call
        /\ tasks[earlier].status = "done"
        /\ tasks[t].status = "done"
        /\ AgentReply(tasks[earlier].state) # AgentReply(tasks[t].state)
        /\ ContentSent(tasks[t].call, tasks[t].response_id)
        /\ \E i \in 1..Len(sent[tasks[t].call]) :
              /\ "content_complete" \in DOMAIN sent[tasks[t].call][i]
              /\ sent[tasks[t].call][i].response_id = tasks[t].response_id
              /\ sent[tasks[t].call][i].content = Last(RepliesInTurn(t)).content

\* the step sends a frame of turn execution t: its content or its
\* content_complete frame
SendsFrame(t) ==
    /\ Len(sent'[tasks[t].call]) = Len(sent[tasks[t].call]) + 1
    /\ tasks[t].status = "running"
    /\ tasks[t].node \in {"send_content", "send_complete"}
    /\ tasks'[t].node # tasks[t].node

\* turn execution t was created for a response_required or reminder_required
\* event: call_details passes response_id 0, the transport's events count
\* from 1
ForResponseEvent(t) == tasks[t].response_id # 0

\* C36: once a response_required or reminder_required event has been
\* received on a call, no frame of an earlier turn execution of that call is
\* sent: a turn execution sends only while no later turn execution of its
\* call was created for such an event.
C36_NoFrameOfAnEarlierTurn ==
    [][ \A t \in TaskIds :
          SendsFrame(t) =>
              \A later \in TasksOf(tasks[t].call) :
                  later > t => ~ForResponseEvent(later) ]_vars

\* the step is turn execution t calling book_slot: manage_booking leaves the
\* booking confirmed exactly when it has booked
Books(t) ==
    /\ BookingStep(t)
    /\ tasks'[t].state.booking.status = "confirmed"

\* C37: book_slot is called only for a slot check_availability reported
\* available in the same run of manage_booking, and no slot is booked twice,
\* whatever the interleaving of the calls' turns: a booked slot was not in
\* the calendar before, is in it afterwards, and the calendar changes in no
\* other way and never loses a slot.
C37_BooksOnlyFreeSlotsOnce ==
    [][ /\ busy \subseteq busy'
        /\ busy' # busy => \E t \in TaskIds : Books(t)
        /\ \A t \in TaskIds :
             Books(t) =>
                 LET slot == tasks'[t].state.booking.confirmed_slot
                 IN  /\ check_availability(slot, busy).available
                     /\ slot \notin busy
                     /\ busy' = busy \cup {slot} ]_vars

\* both calls asked for 2026-02-09 12:00: one holds the confirmed booking and
\* the other was offered alternatives
C37_Witness ==
    \E c \in AllCalls :
        /\ store[c].booking.status = "confirmed"
        /\ store[c].booking.confirmed_slot = "2026-02-09 12:00"
        /\ store[OtherCall(c)].booking.status = "offered"
        /\ store[OtherCall(c)].booking.requested_date = "2026-02-09 12:00"
        /\ "2026-02-09 12:00" \in busy

\* C38: whatever the interleaving of the turns of different calls that give
\* the same identifier, create_user is never called for an identifier the
\* directory already holds, so a create leaves every existing record as it
\* was.
C38_CreateOnlyForUnknownIdentifier ==
    [][ \A t \in TaskIds :
          Creates(t) =>
              /\ Get(tasks[t].state.client_profile.profile_data, "dni")
                     \notin DOMAIN users
              /\ \A d \in DOMAIN users : users'[d] = users[d] ]_vars

=============================================================================
